---- MODULE Spec2Model ----
(***************************************************************************)
(* Two-stage multiperiod network-design model (src/app/models.py):         *)
(* Deterministic (Stage 1) and SecondStage (Stage 2) build a MILP in a     *)
(* gurobipy Model, optimize it and extract results.  The state is one      *)
(* model instance (its class, PERIODS, the dictionaries X, Y, Z, W, the    *)
(* cost expressions, results, metrics) and the solver session it owns      *)
(* (columns, rows, objective, status, incumbent).                          *)
(***************************************************************************)
EXTENDS Integers, Sequences, FiniteSets, TLC

\* Largest `periods` an instance is constructed with.
MaxPeriods == 1
\* Largest number of build() calls made on one instance.
MaxBuilds == 2

-----------------------------------------------------------------------------
(* Sequences, dictionaries and linear expressions                          *)

\* The items of a comprehension in order, ss[i] being the items generated
\* for the i-th element of the outer loop.
RECURSIVE Concat(_)
Concat(ss) == IF ss = <<>> THEN <<>> ELSE Head(ss) \o Concat(Tail(ss))

\* range(n)
Range(n) == [i \in 1..n |-> i - 1]

Elems(s) == {s[i] : i \in DOMAIN s}

RECURSIVE SumOver(_, _)
SumOver(S, f) ==
    IF S = {} THEN 0
    ELSE LET e == CHOOSE e \in S : TRUE IN f[e] + SumOver(S \ {e}, f)

\* The empty dict.
EmptyDict == <<>>

\* dict([(key, addVar(...)) for key in keys]): the i-th key gets the column
\* that the i-th addVar call creates, base being the columns that exist.
DictOfColumns(keys, base) ==
    [k \in Elems(keys) |-> base + (CHOOSE i \in DOMAIN keys : keys[i] = k)]

\* quicksum(terms), terms a sequence of <<coefficient, column>>: a LinExpr,
\* held as the function from its columns to their coefficients.
quicksum(terms) ==
    [v \in {terms[i][2] : i \in DOMAIN terms} |->
        SumOver({i \in DOMAIN terms : terms[i][2] = v},
                [i \in DOMAIN terms |-> terms[i][1]])]

LinAdd(e1, e2) ==
    [v \in DOMAIN e1 \cup DOMAIN e2 |->
        (IF v \in DOMAIN e1 THEN e1[v] ELSE 0)
      + (IF v \in DOMAIN e2 THEN e2[v] ELSE 0)]

LinNeg(e) == [v \in DOMAIN e |-> 0 - e[v]]

\* LinExpr.getValue() under the column values x.
getValue(e, x) == SumOver(DOMAIN e, [v \in DOMAIN e |-> e[v] * x[v]])

-----------------------------------------------------------------------------
(* Entities and build inputs                                               *)

\* Satellite records (classes.py): capacity tiers in the order of
\* capacity.keys(), cost_fixed[q], cost_operation[q][t], capacity[q].
Satellite(id) ==
    CASE id = "s1" ->
         [id |-> "s1", tiers |-> <<"A", "B">>,
          capacity |-> [A |-> 10, B |-> 20],
          cost_fixed |-> [A |-> 100, B |-> 150],
          cost_operation |-> [A |-> [t \in 0..MaxPeriods |-> 2],
                              B |-> [t \in 0..MaxPeriods |-> 3]]]
      [] id = "s3" ->
         [id |-> "s3", tiers |-> <<"A", "B">>,
          capacity |-> [A |-> 10, B |-> 20],
          cost_fixed |-> [A |-> 100, B |-> 150],
          cost_operation |-> [A |-> [t \in 0..MaxPeriods |-> 60],
                              B |-> [t \in 0..MaxPeriods |-> 1]]]
      [] OTHER ->
         [id |-> "s2", tiers |-> <<"A">>,
          capacity |-> [A |-> 10],
          cost_fixed |-> [A |-> 100],
          cost_operation |-> [A |-> [t \in 0..MaxPeriods |-> 2]]]

\* The index tuples a table of the inputs lacks: none of them.
NoneMissing == [satellite |-> {}, dc |-> {}, small |-> {}]

\* The arguments of one build() call: the satellites and pixels (by id, in
\* list order), the fleet size of vehicles_required["small"] by pixel, the
\* total of costs["satellite"] by satellite and pixel and the total of
\* costs["dc"] by pixel (the same in every period), and the index tuples
\* that costs["satellite"], costs["dc"] and vehicles_required["small"] have
\* no entry for.
BuildInputs ==
    { [satellites |-> <<"s1">>, pixels |-> <<"k1", "k2">>,
       load |-> [k1 |-> 8, k2 |-> 8],
       sat  |-> [s1 |-> [k1 |-> 5, k2 |-> 5]],
       dc   |-> [k1 |-> 200, k2 |-> 200],
       missing |-> NoneMissing],
      [satellites |-> <<"s1", "s2">>, pixels |-> <<"k1">>,
       load |-> [k1 |-> 4],
       sat  |-> [s1 |-> [k1 |-> 5], s2 |-> [k1 |-> 6]],
       dc   |-> [k1 |-> 3],
       missing |-> NoneMissing],
      [satellites |-> <<"s2">>, pixels |-> <<"k1">>,
       load |-> [k1 |-> 4],
       sat  |-> [s2 |-> [k1 |-> 6]],
       dc   |-> [k1 |-> 200],
       missing |-> NoneMissing] }

\* Variant of the lookup that finds an entry for every key.
KeyAlwaysPresent(inp, table, key) == FALSE

\* Whether table[key] raises KeyError: the table has no entry for the key.
KeyMissing(inp, table, key) == key \in inp.missing[table]

\* vehicles_required["small"][(s, k, t)]["fleet_size"]
fleet_size(inp, s, k, t) == inp.load[k]

\* costs["satellite"][(s, k, t)]["total"]
cost_satellite(inp, s, k, t) == inp.sat[s][k]

\* costs["dc"][(k, t)]["total"]
cost_dc(inp, k, t) == inp.dc[k]

\* s.capacity.keys() for the satellite with this id
Tiers(s) == Satellite(s).tiers

\* Every (satellite id, tier) pair of the entities above.
AllPairs == UNION {{<<s, q>> : q \in Elems(Tiers(s))} : s \in {"s1", "s2"}}

-----------------------------------------------------------------------------
(* The solver session (gurobipy Model)                                     *)

\* A column: addVar(vtype=GRB.BINARY, name=...), tagged with the build()
\* call that created it.
Column(name, b) == [name |-> name, build |-> b]

\* A row: addConstr(lhs sense rhs, name=...), lhs a LinExpr over columns;
\* family is the literal prefix its name was formatted with.
Row(family, name, coef, sense, rhs, b) ==
    [family |-> family, name |-> name, coef |-> coef, sense |-> sense,
     rhs |-> rhs, build |-> b]

\* Bounds of a row's left-hand side once the columns in DOMAIN a are fixed,
\* the others ranging over {0, 1}.
Lo(c, a) ==
    SumOver(DOMAIN c.coef,
            [v \in DOMAIN c.coef |->
                IF v \in DOMAIN a THEN c.coef[v] * a[v]
                ELSE IF c.coef[v] < 0 THEN c.coef[v] ELSE 0])

Hi(c, a) ==
    SumOver(DOMAIN c.coef,
            [v \in DOMAIN c.coef |->
                IF v \in DOMAIN a THEN c.coef[v] * a[v]
                ELSE IF c.coef[v] > 0 THEN c.coef[v] ELSE 0])

MaySatisfy(c, a) ==
    IF c.sense = "<=" THEN Lo(c, a) <= c.rhs
    ELSE Lo(c, a) <= c.rhs /\ c.rhs <= Hi(c, a)

\* All 0/1 assignments of the columns cols (a sequence) that extend one of
\* partials and satisfy every row of rows.
RECURSIVE Assignments(_, _, _)
Assignments(cols, rows, partials) ==
    IF cols = <<>> THEN partials
    ELSE LET v == Head(cols)
             touching == {c \in rows : v \in DOMAIN c.coef}
             ext == {a @@ (v :> b) : a \in partials, b \in {0, 1}}
         IN Assignments(Tail(cols), rows,
                        {e \in ext : \A c \in touching : MaySatisfy(c, e)})

RECURSIVE SetToSeq(_)
SetToSeq(S) ==
    IF S = {} THEN <<>>
    ELSE LET m == CHOOSE m \in S : \A o \in S : m >= o
         IN <<m>> \o SetToSeq(S \ {m})

\* Feasible points of the rows over the column set cols (a row over no
\* column holds or fails by its constant alone).
Feasible(cols, rows) ==
    IF \E c \in rows : DOMAIN c.coef = {} /\ ~MaySatisfy(c, EmptyDict)
    THEN {}
    ELSE Assignments(SetToSeq(cols), rows, {EmptyDict})

\* Minimisers of the objective obj among the points F.
Minimisers(F, obj) ==
    LET vals == {getValue(obj, a) : a \in F}
        best == CHOOSE m \in vals : \A v \in vals : m <= v
    IN {a \in F : getValue(obj, a) = best}

-----------------------------------------------------------------------------
(* Fleet-size estimator (src/app/utils.py)                                 *)

\* The floats of the estimator, held as exact fractions <<n, d>> in lowest
\* terms with d > 0.
RECURSIVE GCD(_, _)
GCD(a, b) == IF b = 0 THEN a ELSE GCD(b, a % b)

Rat(n, d) ==
    LET g == GCD(IF n < 0 THEN 0 - n ELSE n, d)
    IN <<n \div g, d \div g>>

R(n) == <<n, 1>>

RatAdd(a, b) == Rat(a[1] * b[2] + b[1] * a[2], a[2] * b[2])
RatMul(a, b) == Rat(a[1] * b[1], a[2] * b[2])
\* a / b for b # 0; a float division by 0.0 raises ZeroDivisionError, which
\* avg_fleet_size tests for before it divides.
RatDiv(a, b) ==
    IF b[1] > 0 THEN Rat(a[1] * b[2], a[2] * b[1])
    ELSE Rat(0 - a[1] * b[2], 0 - a[2] * b[1])
RatLess(a, b) == a[1] * b[2] < b[1] * a[2]

\* math.sqrt on the fractions whose numerator and denominator are squares.
RatSqrt(a) ==
    << CHOOSE r \in 0..a[1] : r * r = a[1], CHOOSE r \in 0..a[2] : r * r = a[2] >>

\* Pixel(id, ..., area_km, avg_drop, avg_stop, speed_intra_stop) with
\* demand_by_period set by the loader; the three statistics are lists over
\* the periods.
Pixel(id, area_km, drop, stop, demand, periods) ==
    [id |-> id, area_km |-> R(area_km),
     demand_by_period |-> [t \in 1..periods |-> R(demand)],
     avg_drop |-> [t \in 1..periods |-> R(drop)],
     avg_stop |-> [t \in 1..periods |-> R(stop)],
     speed_intra_stop |-> [small |-> R(2), large |-> R(4)],
     k |-> Rat(57, 100)]

\* Vehicle.__init__: the attributes a Vehicle has.
Vehicle(id, type, capacity, max_time_services) ==
    [id |-> id, type |-> type, capacity |-> R(capacity), cost_fixed |-> R(10),
     time_fixed |-> R(1), time_service |-> R(1), time_dispatch |-> R(2),
     time_load |-> R(1), speed_line_haul |-> R(3),
     max_time_services |-> R(max_time_services), k |-> R(1)]

\* list[t], t counted from 0
At(list, t) == list[t + 1]

\* pixel.avg_drop[t] <= 0 or pixel.avg_stop[t] <= 0
\* or pixel.demand_by_period[t] <= 0
Degenerate(pixel, t) ==
    \/ ~RatLess(R(0), At(pixel.avg_drop, t))
    \/ ~RatLess(R(0), At(pixel.avg_stop, t))
    \/ ~RatLess(R(0), At(pixel.demand_by_period, t))

effective_vehicle_capacity(pixel, vehicle, t) ==
    RatDiv(vehicle.capacity, At(pixel.avg_drop, t))

time_services(pixel, vehicle, t) ==
    RatAdd(vehicle.time_fixed, RatMul(vehicle.time_service, At(pixel.avg_drop, t)))

time_intra_stop(pixel, vehicle, t) ==
    RatDiv(RatMul(vehicle.k, pixel.k),
           RatMul(pixel.speed_intra_stop[vehicle.type],
                  RatSqrt(RatDiv(At(pixel.avg_drop, t), pixel.area_km))))

avg_tour_time(pixel, vehicle, t) ==
    RatMul(effective_vehicle_capacity(pixel, vehicle, t),
           RatAdd(time_services(pixel, vehicle, t),
                  time_intra_stop(pixel, vehicle, t)))

time_preparing_dispatch(pixel, vehicle, t) ==
    RatAdd(vehicle.time_dispatch,
           RatMul(RatMul(effective_vehicle_capacity(pixel, vehicle, t),
                         At(pixel.avg_drop, t)),
                  vehicle.time_load))

time_line_haul(vehicle, distance) ==
    RatMul(R(2), RatDiv(RatMul(distance, vehicle.k), vehicle.speed_line_haul))

\* avg_tour_time + time_preparing_dispatch + time_line_haul
avg_time(pixel, vehicle, t, distance) ==
    RatAdd(RatAdd(avg_tour_time(pixel, vehicle, t),
                  time_preparing_dispatch(pixel, vehicle, t)),
           time_line_haul(vehicle, distance))

NoValue == <<>>

\* CADeterministic.__avg_fleet_size: the dict returned, or the exception
\* raised.  The statements run in order: the divisions of time_intra_stop
\* and time_line_haul come before vehicle.Tmax is read, and in
\* vehicle.Tmax / (...) the attribute is read before the division is made;
\* an object without that attribute raises AttributeError there.
avg_fleet_size(pixel, vehicle, t, distance) ==
    IF Degenerate(pixel, t)
    THEN [raised |-> "none",
          value |-> [fleet_size |-> R(0), avg_tour_time |-> R(0),
                     fully_loaded_tours |-> R(0),
                     effective_capacity |-> R(0),
                     demand_served |-> At(pixel.demand_by_period, t),
                     avg_drop |-> At(pixel.avg_drop, t),
                     avg_stop_density |-> At(pixel.avg_stop, t),
                     avg_time |-> R(0), avg_time_dispatch |-> R(0),
                     avg_time_line_haul |-> R(0)]]
    ELSE IF pixel.area_km = R(0)
    \* pixel.avg_drop[t] / pixel.area_km
    THEN [raised |-> "ZeroDivisionError", value |-> NoValue]
    ELSE IF RatMul(pixel.speed_intra_stop[vehicle.type],
                   RatSqrt(RatDiv(At(pixel.avg_drop, t), pixel.area_km))) = R(0)
    \* (vehicle.k * pixel.k) / (speed_intra_stop * sqrt(...))
    THEN [raised |-> "ZeroDivisionError", value |-> NoValue]
    ELSE IF vehicle.speed_line_haul = R(0)
    \* distance * vehicle.k / vehicle.speed_line_haul
    THEN [raised |-> "ZeroDivisionError", value |-> NoValue]
    ELSE IF "Tmax" \notin DOMAIN vehicle
    THEN [raised |-> "AttributeError", value |-> NoValue]
    ELSE IF avg_time(pixel, vehicle, t, distance) = R(0)
    \* vehicle.Tmax / (avg_tour_time + time_preparing_dispatch + time_line_haul)
    THEN [raised |-> "ZeroDivisionError", value |-> NoValue]
    ELSE LET ecap == effective_vehicle_capacity(pixel, vehicle, t)
             beta == RatDiv(vehicle.Tmax, avg_time(pixel, vehicle, t, distance))
             denominador == RatMul(beta, ecap)
             v == IF RatLess(R(0), denominador)
                  THEN RatDiv(At(pixel.avg_stop, t), denominador)
                  ELSE R(0)
         IN [raised |-> "none",
             value |-> [fleet_size |-> v,
                        avg_tour_time |-> avg_tour_time(pixel, vehicle, t),
                        fully_loaded_tours |-> beta,
                        effective_capacity |-> ecap,
                        demand_served |-> At(pixel.demand_by_period, t),
                        avg_drop |-> At(pixel.avg_drop, t),
                        avg_stop_density |-> At(pixel.avg_stop, t),
                        avg_time |-> avg_time(pixel, vehicle, t, distance),
                        avg_time_dispatch |->
                            time_preparing_dispatch(pixel, vehicle, t),
                        avg_time_line_haul |->
                            time_line_haul(vehicle, distance)]]

\* dict([(key, estimate) for ...]), keys in the order of the loops: the
\* first item that raises ends the comprehension with its exception.
DictOfEstimates(keys, est) ==
    LET bad   == {i \in DOMAIN keys : est[keys[i]].raised # "none"}
        first == CHOOSE i \in bad : \A j \in bad : i <= j
    IN IF bad # {}
       THEN [raised |-> est[keys[first]].raised, value |-> NoValue]
       ELSE [raised |-> "none",
             value |-> [key \in Elems(keys) |-> est[key].value]]

\* CADeterministic.calculate_avg_fleet_size_from_satellites.  self.satellites
\* is the map id -> Satellite; `for s in self.satellites` yields its keys,
\* the ids, and s.id on an id raises AttributeError for the first item.
calculate_avg_fleet_size_from_satellites(w) ==
    IF w.periods > 0 /\ DOMAIN w.satellites # {} /\ DOMAIN w.pixels # {}
    THEN [raised |-> "AttributeError", value |-> NoValue]
    ELSE [raised |-> "none", value |-> EmptyDict]

\* CADeterministic.calculate_avg_fleet_size_from_dc: pixels.values() yields
\* the Pixel objects.
calculate_avg_fleet_size_from_dc(w) ==
    LET ids  == w.pixel_ids
        keys == Concat([it \in DOMAIN Range(w.periods) |->
                    [ik \in DOMAIN ids |-> <<ids[ik], Range(w.periods)[it]>>]])
    IN DictOfEstimates(keys,
           [key \in Elems(keys) |->
               avg_fleet_size(w.pixels[key[1]], w.large_vehicle, key[2],
                              w.distances_dc[key[1]])])

\* The class statements of the module.  The annotations Dict[(str, str),
\* float], Dict[(str, str, int), float] and Dict[(str, int), float] of the
\* abstract methods subscript Dict with a tuple where a type is required:
\* an interpreter that evaluates annotations when the def statement runs
\* raises TypeError there, one that evaluates them on demand defines the
\* classes.
CAConfig_class(annotations) ==
    IF annotations = "eager" THEN "TypeError" ELSE "none"

\* What a program gets that imports the module and makes a call.
Imported(annotations, out) ==
    IF CAConfig_class(annotations) = "none"
    THEN out
    ELSE [raised |-> CAConfig_class(annotations), value |-> NoValue]

\* The statistics (avg_drop, avg_stop, demand) of a pixel, and the worlds
\* the estimator is constructed and called in: the interpreter's treatment
\* of annotations, the constructor's arguments, the pixels (a dict, with its
\* keys in insertion order) and the distances.
PixelStats == {0, 1, 4} \X {0, 2, 3} \X {0, 5}

\* A vehicle with speed_line_haul 0, or with every time and k 0 (the cycle
\* time of a tour at distance 0 is then 0).
ZeroIn(vehicle, z) ==
    IF z = "speed_line_haul" THEN [vehicle EXCEPT !.speed_line_haul = R(0)]
    ELSE IF z = "times"
    THEN [vehicle EXCEPT !.time_fixed = R(0), !.time_service = R(0),
                         !.time_dispatch = R(0), !.time_load = R(0),
                         !.k = R(0)]
    ELSE vehicle

Worlds ==
    { [annotations |-> an,
       periods |-> p,
       satellites |-> [s \in S |-> Satellite(s)],
       pixels |-> [k1 |-> [Pixel("k1", a, st[1], st[2], st[3], p) EXCEPT
                              !.speed_intra_stop =
                                  IF z = "speed_intra_stop"
                                  THEN [small |-> R(0), large |-> R(0)] ELSE @],
                   k2 |-> Pixel("k2", 1, st2[1], st2[2], st2[3], p)],
       pixel_ids |-> <<"k1", "k2">>,
       small_vehicle |-> ZeroIn(Vehicle("v1", "small", 8, 12), z),
       large_vehicle |-> ZeroIn(Vehicle("v2", "large", 16, 12), z),
       distances_sat |-> [sk \in S \X {"k1", "k2"} |-> R(d)],
       distances_dc |-> [k \in {"k1", "k2"} |-> R(d + 1)]] :
      p \in 1..MaxPeriods, S \in {{"s1"}, {"s1", "s2"}}, a \in {0, 1, 4},
      z \in {"none", "speed_intra_stop", "speed_line_haul", "times"},
      st \in PixelStats, st2 \in {<<0, 3, 5>>, <<1, 2, 5>>, <<4, 3, 5>>},
      d \in {0, 3}, an \in {"eager", "lazy"} }

NoWorld == <<>>
NoEstimate == [op |-> "none"]

-----------------------------------------------------------------------------
(* The instance                                                            *)

VARIABLES
    cls,        \* "Deterministic" or "SecondStage"
    PERIODS,    \* self.PERIODS
    X, Y, Z, W, \* self.X, self.Y, self.Z, self.W
    cost,       \* self.cost_allocation_satellites, ..., self.cost_total
    results,    \* self.results
    metrics,    \* self.metrics
    model,      \* self.model, the solver session
    counters,   \* whether the solver exposes the cut/branch counters read
                \* by get_results
    nbuilds,    \* build() calls made on this instance
    lastCall,   \* the method called last
    raised,     \* the exception it raised, "none" if it returned
    live,       \* the inputs of the last build() that completed
    inputs,     \* the inputs of every build() call so far, in order
    handoff,    \* the Stage-1 inputs whose results["Y"] became param_y
    world,      \* the estimator (CADeterministic) and the data it is given
    estimate    \* the estimator call made last and its outcome

vars == <<cls, PERIODS, X, Y, Z, W, cost, results, metrics, model, counters,
          nbuilds, lastCall, raised, live, inputs, handoff, world, estimate>>

NoInput ==
    [satellites |-> <<>>, pixels |-> <<>>, load |-> <<>>, sat |-> <<>>,
     dc |-> <<>>, missing |-> NoneMissing]

\* gb.Model(NAME_MODEL): no column, no row, status LOADED, no incumbent.
NewModel ==
    [vars |-> <<>>, constrs |-> <<>>, objective |-> EmptyDict,
     Status |-> "LOADED", SolCount |-> 0, x |-> EmptyDict]

\* Variant of Model.reset() that keeps the status and the solution.
reset_keeping_solution(m) == m

\* Model.reset(): discards the solution information and returns the model to
\* the unsolved state; columns, rows and objective stay.
reset(m) == [m EXCEPT !.Status = "LOADED", !.SolCount = 0, !.x = EmptyDict]

\* The keys the comprehensions of __add_variables run over, in order.
XKeys(inp, T) ==
    Concat([is \in DOMAIN inp.satellites |-> LET s == inp.satellites[is] IN
        Concat([iq \in DOMAIN Tiers(s) |-> LET q == Tiers(s)[iq] IN
            Concat([it \in DOMAIN Range(T) |-> LET t == Range(T)[it] IN << <<s, q, t>> >>])])])

ZKeys(inp, T) ==
    Concat([is \in DOMAIN inp.satellites |-> LET s == inp.satellites[is] IN
        Concat([ik \in DOMAIN inp.pixels |-> LET k == inp.pixels[ik] IN
            Concat([it \in DOMAIN Range(T) |-> LET t == Range(T)[it] IN << <<s, k, t>> >>])])])

WKeys(inp, T) ==
    Concat([ik \in DOMAIN inp.pixels |-> LET k == inp.pixels[ik] IN
        Concat([it \in DOMAIN Range(T) |-> LET t == Range(T)[it] IN << <<k, t>> >>])])

YKeys(inp) ==
    Concat([is \in DOMAIN inp.satellites |-> LET s == inp.satellites[is] IN
        Concat([iq \in DOMAIN Tiers(s) |-> LET q == Tiers(s)[iq] IN << <<s, q>> >>])])

\* The names the variables are given.
XName(key) == "X_s" \o key[1] \o "_t" \o ToString(key[3])
ZName(key) == "Z_s" \o key[1] \o "_k" \o key[2] \o "_t" \o ToString(key[3])
WName(key) == "W_k" \o key[1] \o "_t" \o ToString(key[2])
YName(key) == "Y_s" \o key[1] \o "_q" \o key[2]

\* One addVar call per name, in order.
Columns(names, b) == [i \in DOMAIN names |-> Column(names[i], b)]

-----------------------------------------------------------------------------
(* Deterministic (Stage 1)                                                 *)

\* Deterministic.__add_variables: X, Z, W, Y in this order, over the full
\* cross products.
Deterministic_add_variables(inp, T, base, b) ==
    LET xk == XKeys(inp, T)
        zk == ZKeys(inp, T)
        wk == WKeys(inp, T)
        yk == YKeys(inp)
    IN [cols |-> Columns([i \in DOMAIN xk |-> XName(xk[i])], b)
                 \o Columns([i \in DOMAIN zk |-> ZName(zk[i])], b)
                 \o Columns([i \in DOMAIN wk |-> WName(wk[i])], b)
                 \o Columns([i \in DOMAIN yk |-> YName(yk[i])], b),
        X |-> DictOfColumns(xk, base),
        Z |-> DictOfColumns(zk, base + Len(xk)),
        W |-> DictOfColumns(wk, base + Len(xk) + Len(zk)),
        Y |-> DictOfColumns(yk, base + Len(xk) + Len(zk) + Len(wk))]

\* Variants of the Stage-1 objective whose total leaves out the DC service
\* cost, and the satellite service cost.
objective_without_dc(inp, T, x, y, z, w) ==
    LET alloc == quicksum(Concat([is \in DOMAIN inp.satellites |-> LET s == inp.satellites[is] IN
                     Concat([iq \in DOMAIN Tiers(s) |-> LET q == Tiers(s)[iq] IN
                         << <<Satellite(s).cost_fixed[q], y[<<s, q>>]>> >>])]))
        oper  == quicksum(Concat([is \in DOMAIN inp.satellites |-> LET s == inp.satellites[is] IN
                     Concat([iq \in DOMAIN Tiers(s) |-> LET q == Tiers(s)[iq] IN
                         Concat([it \in DOMAIN Range(T) |-> LET t == Range(T)[it] IN
                             << <<Satellite(s).cost_operation[q][t],
                                  x[<<s, q, t>>]>> >>])])]))
        sat   == quicksum(Concat([is \in DOMAIN inp.satellites |-> LET s == inp.satellites[is] IN
                     Concat([ik \in DOMAIN inp.pixels |-> LET k == inp.pixels[ik] IN
                         Concat([it \in DOMAIN Range(T) |-> LET t == Range(T)[it] IN
                             << <<cost_satellite(inp, s, k, t),
                                  z[<<s, k, t>>]>> >>])])]))
        dc    == quicksum(Concat([ik \in DOMAIN inp.pixels |-> LET k == inp.pixels[ik] IN
                     Concat([it \in DOMAIN Range(T) |-> LET t == Range(T)[it] IN
                         << <<cost_dc(inp, k, t), w[<<k, t>>]>> >>])]))
    IN [assigned |-> 5, allocation |-> alloc, operating |-> oper,
        satellite |-> sat, dc |-> dc,
        total |-> LinAdd(LinAdd(alloc, sat), oper)]

objective_without_service(inp, T, x, y, z, w) ==
    LET full == objective_without_dc(inp, T, x, y, z, w)
    IN [full EXCEPT !.total = LinAdd(LinAdd(full.allocation, full.dc),
                                     full.operating)]

\* Deterministic.__add_objective: the four cost expressions and their sum.
Deterministic_add_objective(inp, T, x, y, z, w) ==
    LET alloc == quicksum(Concat([is \in DOMAIN inp.satellites |-> LET s == inp.satellites[is] IN
                     Concat([iq \in DOMAIN Tiers(s) |-> LET q == Tiers(s)[iq] IN
                         << <<Satellite(s).cost_fixed[q], y[<<s, q>>]>> >>])]))
        oper  == quicksum(Concat([is \in DOMAIN inp.satellites |-> LET s == inp.satellites[is] IN
                     Concat([iq \in DOMAIN Tiers(s) |-> LET q == Tiers(s)[iq] IN
                         Concat([it \in DOMAIN Range(T) |-> LET t == Range(T)[it] IN
                             << <<Satellite(s).cost_operation[q][t],
                                  x[<<s, q, t>>]>> >>])])]))
        sat   == quicksum(Concat([is \in DOMAIN inp.satellites |-> LET s == inp.satellites[is] IN
                     Concat([ik \in DOMAIN inp.pixels |-> LET k == inp.pixels[ik] IN
                         Concat([it \in DOMAIN Range(T) |-> LET t == Range(T)[it] IN
                             << <<cost_satellite(inp, s, k, t),
                                  z[<<s, k, t>>]>> >>])])]))
        dc    == quicksum(Concat([ik \in DOMAIN inp.pixels |-> LET k == inp.pixels[ik] IN
                     Concat([it \in DOMAIN Range(T) |-> LET t == Range(T)[it] IN
                         << <<cost_dc(inp, k, t), w[<<k, t>>]>> >>])]))
    IN [assigned |-> 5, allocation |-> alloc, operating |-> oper,
        satellite |-> sat, dc |-> dc,
        total |-> LinAdd(LinAdd(LinAdd(alloc, dc), sat), oper)]

\* Variant of the R_Open rows that admits two tiers per satellite.
allocation_up_to_two(inp, T, x, y, z, w, b) ==
    Concat([is \in DOMAIN inp.satellites |-> LET s == inp.satellites[is] IN
        << Row("R_Open", "R_Open_s" \o s,
               quicksum(Concat([iq \in DOMAIN Tiers(s) |-> LET q == Tiers(s)[iq] IN << <<1, y[<<s, q>>]>> >>])),
               "<=", 2, b) >>])

\* R_Open_s{s}: sum_q Y[s,q] <= 1
Deterministic_add_constr_allocation_satellite(inp, T, x, y, z, w, b) ==
    Concat([is \in DOMAIN inp.satellites |-> LET s == inp.satellites[is] IN
        << Row("R_Open", "R_Open_s" \o s,
               quicksum(Concat([iq \in DOMAIN Tiers(s) |-> LET q == Tiers(s)[iq] IN << <<1, y[<<s, q>>]>> >>])),
               "<=", 1, b) >>])

\* Variant of the R_Operating rows with the two sides exchanged.
operating_reversed(inp, T, x, y, z, w, b) ==
    Concat([it \in DOMAIN Range(T) |-> LET t == Range(T)[it] IN
        Concat([is \in DOMAIN inp.satellites |-> LET s == inp.satellites[is] IN
            Concat([iq \in DOMAIN Tiers(s) |-> LET q == Tiers(s)[iq] IN
                << Row("R_Operating",
                       "R_Operating_s" \o s \o "_q" \o q \o "_t" \o ToString(t),
                       LinAdd(quicksum(<< <<1, y[<<s, q>>]>> >>),
                              LinNeg(quicksum(<< <<1, x[<<s, q, t>>]>> >>))),
                       "<=", 0, b) >>])])])

\* R_Operating_s{s}_q{q}_t{t}: X[s,q,t] <= Y[s,q]
Deterministic_add_constr_operating_satellite(inp, T, x, y, z, w, b) ==
    Concat([it \in DOMAIN Range(T) |-> LET t == Range(T)[it] IN
        Concat([is \in DOMAIN inp.satellites |-> LET s == inp.satellites[is] IN
            Concat([iq \in DOMAIN Tiers(s) |-> LET q == Tiers(s)[iq] IN
                << Row("R_Operating",
                       "R_Operating_s" \o s \o "_q" \o q \o "_t" \o ToString(t),
                       LinAdd(quicksum(<< <<1, x[<<s, q, t>>]>> >>),
                              LinNeg(quicksum(<< <<1, y[<<s, q>>]>> >>))),
                       "<=", 0, b) >>])])])

\* R_Assign_s{s}_k{k}_t{t}: Z[s,k,t] - sum_q X[s,q,t] <= 0
Deterministic_add_constr_assign_pixel_sallite(inp, T, x, y, z, w, b) ==
    Concat([it \in DOMAIN Range(T) |-> LET t == Range(T)[it] IN
        Concat([ik \in DOMAIN inp.pixels |-> LET k == inp.pixels[ik] IN
            Concat([is \in DOMAIN inp.satellites |-> LET s == inp.satellites[is] IN
                << Row("R_Assign",
                       "R_Assign_s" \o s \o "_k" \o k \o "_t" \o ToString(t),
                       LinAdd(quicksum(<< <<1, z[<<s, k, t>>]>> >>),
                              LinNeg(quicksum(Concat([iq \in DOMAIN Tiers(s) |-> LET q == Tiers(s)[iq] IN
                                  << <<1, x[<<s, q, t>>]>> >>])))),
                       "<=", 0, b) >>])])])

\* Variant of the Stage-1 R_capacity rows that counts the assigned pixels
\* instead of the vehicles they require.
capacity_by_pixel_count(inp, T, x, y, z, w, b) ==
    Concat([it \in DOMAIN Range(T) |-> LET t == Range(T)[it] IN
        Concat([is \in DOMAIN inp.satellites |-> LET s == inp.satellites[is] IN
            << Row("R_capacity",
                   "R_capacity_s" \o s \o "_t" \o ToString(t),
                   LinAdd(quicksum(Concat([ik \in DOMAIN inp.pixels |-> LET k == inp.pixels[ik] IN
                              << <<1, z[<<s, k, t>>]>> >>])),
                          LinNeg(quicksum(Concat([iq \in DOMAIN Tiers(s) |-> LET q == Tiers(s)[iq] IN
                              << <<Satellite(s).capacity[q], y[<<s, q>>]>> >>])))),
                   "<=", 0, b) >>])])

\* R_capacity_s{s}_t{t}:
\* sum_k Z[s,k,t] * fleet_size - sum_q Y[s,q] * capacity[q] <= 0
Deterministic_add_constr_capacity_satellite(inp, T, x, y, z, w, b) ==
    Concat([it \in DOMAIN Range(T) |-> LET t == Range(T)[it] IN
        Concat([is \in DOMAIN inp.satellites |-> LET s == inp.satellites[is] IN
            << Row("R_capacity",
                   "R_capacity_s" \o s \o "_t" \o ToString(t),
                   LinAdd(quicksum(Concat([ik \in DOMAIN inp.pixels |-> LET k == inp.pixels[ik] IN
                              << <<fleet_size(inp, s, k, t), z[<<s, k, t>>]>> >>])),
                          LinNeg(quicksum(Concat([iq \in DOMAIN Tiers(s) |-> LET q == Tiers(s)[iq] IN
                              << <<Satellite(s).capacity[q], y[<<s, q>>]>> >>])))),
                   "<=", 0, b) >>])])

\* Variant of the R_demand rows that bounds the service modes from above
\* only.
demand_at_most_once(inp, T, x, y, z, w, b) ==
    Concat([it \in DOMAIN Range(T) |-> LET t == Range(T)[it] IN
        Concat([ik \in DOMAIN inp.pixels |-> LET k == inp.pixels[ik] IN
            << Row("R_demand",
                   "R_demand_k" \o k \o "_t" \o ToString(t),
                   LinAdd(quicksum(Concat([is \in DOMAIN inp.satellites |-> LET s == inp.satellites[is] IN
                              << <<1, z[<<s, k, t>>]>> >>])),
                          quicksum(<< <<1, w[<<k, t>>]>> >>)),
                   "<=", 1, b) >>])])

\* Variant of the R_demand rows without the W term.
demand_without_dc(inp, T, x, y, z, w, b) ==
    Concat([it \in DOMAIN Range(T) |-> LET t == Range(T)[it] IN
        Concat([ik \in DOMAIN inp.pixels |-> LET k == inp.pixels[ik] IN
            << Row("R_demand",
                   "R_demand_k" \o k \o "_t" \o ToString(t),
                   quicksum(Concat([is \in DOMAIN inp.satellites |-> LET s == inp.satellites[is] IN
                       << <<1, z[<<s, k, t>>]>> >>])),
                   "==", 1, b) >>])])

\* R_demand_k{k}_t{t}: sum_s Z[s,k,t] + W[k,t] == 1
Deterministic_add_constr_demand_satified(inp, T, x, y, z, w, b) ==
    Concat([it \in DOMAIN Range(T) |-> LET t == Range(T)[it] IN
        Concat([ik \in DOMAIN inp.pixels |-> LET k == inp.pixels[ik] IN
            << Row("R_demand",
                   "R_demand_k" \o k \o "_t" \o ToString(t),
                   LinAdd(quicksum(Concat([is \in DOMAIN inp.satellites |-> LET s == inp.satellites[is] IN
                              << <<1, z[<<s, k, t>>]>> >>])),
                          quicksum(<< <<1, w[<<k, t>>]>> >>)),
                   "==", 1, b) >>])])

\* Deterministic.__add_constraints: the five families, in this order.
Deterministic_add_constraints(inp, T, x, y, z, w, b) ==
         Deterministic_add_constr_allocation_satellite(inp, T, x, y, z, w, b)
      \o Deterministic_add_constr_operating_satellite(inp, T, x, y, z, w, b)
      \o Deterministic_add_constr_assign_pixel_sallite(inp, T, x, y, z, w, b)
      \o Deterministic_add_constr_capacity_satellite(inp, T, x, y, z, w, b)
      \o Deterministic_add_constr_demand_satified(inp, T, x, y, z, w, b)

-----------------------------------------------------------------------------
(* SecondStage (Stage 2)                                                   *)

\* Variant of the open-satellite test that takes every satellite as open.
OpenAlways(s, y) == TRUE

\* sum([self.Y[(s.id, q_id)] for q_id in s.capacity.keys()]) > 0
Open(s, y) ==
    SumOver(Elems(Tiers(s)), [q \in Elems(Tiers(s)) |-> y[<<s, q>>]]) > 0

\* SecondStage.__add_variables.  The X comprehension reads self.Y[(s, q)] for
\* every satellite, tier and period, in order: the first pair param_y lacks
\* raises KeyError, after addVar has run for the items before it.  With
\* PERIODS >= 1 it has read every pair the later comprehensions read.
SecondStage_add_variables(inp, T, y, base, b) ==
    LET items == XKeys(inp, T)
        bad   == {i \in DOMAIN items :
                     <<items[i][1], items[i][2]>> \notin DOMAIN y}
        first == CHOOSE i \in bad : \A j \in bad : i <= j
        upto  == IF bad = {} THEN items ELSE SubSeq(items, 1, first - 1)
        xk == Concat([ie \in DOMAIN upto |-> LET e == upto[ie] IN
                  IF y[<<e[1], e[2]>>] > 0 THEN <<e>> ELSE <<>>])
        zk == Concat([ie \in DOMAIN ZKeys(inp, T) |-> LET e == ZKeys(inp, T)[ie] IN
                  IF Open(e[1], y) THEN <<e>> ELSE <<>>])
        wk == WKeys(inp, T)
    IN IF bad # {}
       THEN [err |-> TRUE, cols |-> Columns([i \in DOMAIN xk |-> XName(xk[i])], b),
             X |-> EmptyDict, Z |-> EmptyDict, W |-> EmptyDict]
       ELSE [err |-> FALSE,
             cols |-> Columns([i \in DOMAIN xk |-> XName(xk[i])], b)
                      \o Columns([i \in DOMAIN zk |-> ZName(zk[i])], b)
                      \o Columns([i \in DOMAIN wk |-> WName(wk[i])], b),
             X |-> DictOfColumns(xk, base),
             Z |-> DictOfColumns(zk, base + Len(xk)),
             W |-> DictOfColumns(wk, base + Len(xk) + Len(zk))]

\* The satellites of the input that param_y opens, and their open tiers.
OpenSatellites(inp, y) ==
    Concat([is \in DOMAIN inp.satellites |-> LET s == inp.satellites[is] IN IF Open(s, y) THEN <<s>> ELSE <<>>])

OpenTiers(s, y) ==
    Concat([iq \in DOMAIN Tiers(s) |-> LET q == Tiers(s)[iq] IN IF y[<<s, q>>] > 0 THEN <<q>> ELSE <<>>])

\* Variant of the Stage-2 objective whose total leaves out the operating
\* cost.
SecondStage_objective_without_operating(inp, T, x, y, z, w) ==
    LET pairs == Concat([is \in DOMAIN inp.satellites |-> LET s == inp.satellites[is] IN
                     Concat([iq \in DOMAIN OpenTiers(s, y) |-> LET q == OpenTiers(s, y)[iq] IN << <<s, q>> >>])])
        alloc == SumOver(DOMAIN pairs,
                     [i \in DOMAIN pairs |->
                         Satellite(pairs[i][1]).cost_fixed[pairs[i][2]]
                         * y[pairs[i]]])
        oper  == quicksum(Concat([is \in DOMAIN inp.satellites |-> LET s == inp.satellites[is] IN
                     Concat([iq \in DOMAIN OpenTiers(s, y) |-> LET q == OpenTiers(s, y)[iq] IN
                         Concat([it \in DOMAIN Range(T) |-> LET t == Range(T)[it] IN
                             << <<Satellite(s).cost_operation[q][t],
                                  x[<<s, q, t>>]>> >>])])]))
        sat   == quicksum(Concat([is \in DOMAIN OpenSatellites(inp, y) |-> LET s == OpenSatellites(inp, y)[is] IN
                     Concat([ik \in DOMAIN inp.pixels |-> LET k == inp.pixels[ik] IN
                         Concat([it \in DOMAIN Range(T) |-> LET t == Range(T)[it] IN
                             << <<cost_satellite(inp, s, k, t),
                                  z[<<s, k, t>>]>> >>])])]))
        dc    == quicksum(Concat([ik \in DOMAIN inp.pixels |-> LET k == inp.pixels[ik] IN
                     Concat([it \in DOMAIN Range(T) |-> LET t == Range(T)[it] IN
                         << <<cost_dc(inp, k, t), w[<<k, t>>]>> >>])]))
    IN [assigned |-> 5, allocation |-> alloc, operating |-> oper,
        satellite |-> sat, dc |-> dc,
        total |-> LinAdd(dc, sat)]

\* SecondStage.__add_objective: the allocation cost is a plain number and is
\* not part of cost_total.
SecondStage_add_objective(inp, T, x, y, z, w) ==
    LET pairs == Concat([is \in DOMAIN inp.satellites |-> LET s == inp.satellites[is] IN
                     Concat([iq \in DOMAIN OpenTiers(s, y) |-> LET q == OpenTiers(s, y)[iq] IN << <<s, q>> >>])])
        alloc == SumOver(DOMAIN pairs,
                     [i \in DOMAIN pairs |->
                         Satellite(pairs[i][1]).cost_fixed[pairs[i][2]]
                         * y[pairs[i]]])
        oper  == quicksum(Concat([is \in DOMAIN inp.satellites |-> LET s == inp.satellites[is] IN
                     Concat([iq \in DOMAIN OpenTiers(s, y) |-> LET q == OpenTiers(s, y)[iq] IN
                         Concat([it \in DOMAIN Range(T) |-> LET t == Range(T)[it] IN
                             << <<Satellite(s).cost_operation[q][t],
                                  x[<<s, q, t>>]>> >>])])]))
        sat   == quicksum(Concat([is \in DOMAIN OpenSatellites(inp, y) |-> LET s == OpenSatellites(inp, y)[is] IN
                     Concat([ik \in DOMAIN inp.pixels |-> LET k == inp.pixels[ik] IN
                         Concat([it \in DOMAIN Range(T) |-> LET t == Range(T)[it] IN
                             << <<cost_satellite(inp, s, k, t),
                                  z[<<s, k, t>>]>> >>])])]))
        dc    == quicksum(Concat([ik \in DOMAIN inp.pixels |-> LET k == inp.pixels[ik] IN
                     Concat([it \in DOMAIN Range(T) |-> LET t == Range(T)[it] IN
                         << <<cost_dc(inp, k, t), w[<<k, t>>]>> >>])]))
    IN [assigned |-> 5, allocation |-> alloc, operating |-> oper,
        satellite |-> sat, dc |-> dc,
        total |-> LinAdd(LinAdd(dc, sat), oper)]

\* Variant of the Stage-2 R_Assign rows with one unit of slack.
assign_with_slack(inp, T, x, y, z, w, b) ==
    Concat([it \in DOMAIN Range(T) |-> LET t == Range(T)[it] IN
        Concat([ik \in DOMAIN inp.pixels |-> LET k == inp.pixels[ik] IN
            Concat([is \in DOMAIN OpenSatellites(inp, y) |-> LET s == OpenSatellites(inp, y)[is] IN
                << Row("R_Assign",
                       "R_Assign_s" \o s \o "_k" \o k \o "_t" \o ToString(t),
                       LinAdd(quicksum(<< <<1, z[<<s, k, t>>]>> >>),
                              LinNeg(quicksum(Concat([iq \in DOMAIN OpenTiers(s, y) |-> LET q == OpenTiers(s, y)[iq] IN
                                  << <<1, x[<<s, q, t>>]>> >>])))),
                       "<=", 1, b) >>])])])

\* R_Assign_s{s}_k{k}_t{t}, open satellites only:
\* Z[s,k,t] - sum_{q : Y[s,q] > 0} X[s,q,t] <= 0
SecondStage_add_constr_assign_pixel_sallite(inp, T, x, y, z, w, b) ==
    Concat([it \in DOMAIN Range(T) |-> LET t == Range(T)[it] IN
        Concat([ik \in DOMAIN inp.pixels |-> LET k == inp.pixels[ik] IN
            Concat([is \in DOMAIN OpenSatellites(inp, y) |-> LET s == OpenSatellites(inp, y)[is] IN
                << Row("R_Assign",
                       "R_Assign_s" \o s \o "_k" \o k \o "_t" \o ToString(t),
                       LinAdd(quicksum(<< <<1, z[<<s, k, t>>]>> >>),
                              LinNeg(quicksum(Concat([iq \in DOMAIN OpenTiers(s, y) |-> LET q == OpenTiers(s, y)[iq] IN
                                  << <<1, x[<<s, q, t>>]>> >>])))),
                       "<=", 0, b) >>])])])

\* R_demand_k{k}_t{t}: sum_{s open} Z[s,k,t] + W[k,t] == 1
SecondStage_add_constr_demand_satified(inp, T, x, y, z, w, b) ==
    Concat([it \in DOMAIN Range(T) |-> LET t == Range(T)[it] IN
        Concat([ik \in DOMAIN inp.pixels |-> LET k == inp.pixels[ik] IN
            << Row("R_demand",
                   "R_demand_k" \o k \o "_t" \o ToString(t),
                   LinAdd(quicksum(Concat([is \in DOMAIN OpenSatellites(inp, y) |-> LET s == OpenSatellites(inp, y)[is] IN
                              << <<1, z[<<s, k, t>>]>> >>])),
                          quicksum(<< <<1, w[<<k, t>>]>> >>)),
                   "==", 1, b) >>])])

\* Variant of the Stage-2 R_capacity rows that counts the assigned pixels
\* instead of the vehicles they require.
capacity_counting_pixels(inp, T, x, y, z, w, b) ==
    Concat([it \in DOMAIN Range(T) |-> LET t == Range(T)[it] IN
        Concat([is \in DOMAIN OpenSatellites(inp, y) |-> LET s == OpenSatellites(inp, y)[is] IN
            << Row("R_capacity",
                   "R_capacity_s" \o s \o "_t" \o ToString(t),
                   quicksum(Concat([ik \in DOMAIN inp.pixels |-> LET k == inp.pixels[ik] IN
                       << <<1, z[<<s, k, t>>]>> >>])),
                   "<=",
                   SumOver(Elems(OpenTiers(s, y)),
                           [q \in Elems(OpenTiers(s, y)) |->
                               y[<<s, q>>] * Satellite(s).capacity[q]]),
                   b) >>])])

\* R_capacity_s{s}_t{t}, open satellites only:
\* sum_k Z[s,k,t] * fleet_size <= sum_{q : Y[s,q] > 0} Y[s,q] * capacity[q]
SecondStage_add_constr_capacity_satellite(inp, T, x, y, z, w, b) ==
    Concat([it \in DOMAIN Range(T) |-> LET t == Range(T)[it] IN
        Concat([is \in DOMAIN OpenSatellites(inp, y) |-> LET s == OpenSatellites(inp, y)[is] IN
            << Row("R_capacity",
                   "R_capacity_s" \o s \o "_t" \o ToString(t),
                   quicksum(Concat([ik \in DOMAIN inp.pixels |-> LET k == inp.pixels[ik] IN
                       << <<fleet_size(inp, s, k, t), z[<<s, k, t>>]>> >>])),
                   "<=",
                   SumOver(Elems(OpenTiers(s, y)),
                           [q \in Elems(OpenTiers(s, y)) |->
                               y[<<s, q>>] * Satellite(s).capacity[q]]),
                   b) >>])])

\* SecondStage.__add_constraints: three families, in this order.
SecondStage_add_constraints(inp, T, x, y, z, w, b) ==
         SecondStage_add_constr_assign_pixel_sallite(inp, T, x, y, z, w, b)
      \o SecondStage_add_constr_demand_satified(inp, T, x, y, z, w, b)
      \o SecondStage_add_constr_capacity_satellite(inp, T, x, y, z, w, b)

-----------------------------------------------------------------------------
(* Construction                                                            *)

\* The cost attributes before any __add_objective has run; assigned counts
\* the attributes that exist, in the order __add_objective assigns them
\* (allocation, operating, satellite, dc, total).
NoCost ==
    [assigned |-> 0, allocation |-> EmptyDict, operating |-> EmptyDict,
     satellite |-> EmptyDict, dc |-> EmptyDict, total |-> EmptyDict]

\* The param_y mappings a SecondStage is constructed with directly: complete
\* 0/1 mappings over the (satellite, tier) pairs, given by the pairs set to 1.
ParamY(ones) == [p \in AllPairs |-> IF p \in ones THEN 1 ELSE 0]

ParamYChoices ==
    { ParamY({}),
      ParamY({<<"s1", "A">>}),
      ParamY({<<"s1", "B">>, <<"s2", "A">>}),
      ParamY({<<"s1", "A">>, <<"s1", "B">>}) }

\* Deterministic.__init__ / SecondStage.__init__
InstanceInit ==
    /\ cls \in {"Deterministic", "SecondStage"}
    /\ PERIODS \in 1..MaxPeriods
    /\ X = EmptyDict /\ Z = EmptyDict /\ W = EmptyDict
    /\ IF cls = "Deterministic" THEN Y = EmptyDict
       ELSE Y \in ParamYChoices
    /\ cost = NoCost
    /\ results = EmptyDict /\ metrics = EmptyDict
    /\ model = NewModel
    /\ counters \in BOOLEAN
    /\ nbuilds = 0 /\ lastCall = "init" /\ raised = "none"
    /\ live = NoInput /\ inputs = <<>> /\ handoff = NoInput

\* A model instance; no estimator is constructed.
Init == InstanceInit /\ world = NoWorld /\ estimate = NoEstimate

-----------------------------------------------------------------------------
(* build()                                                                 *)

\* How far __add_objective gets over the satellites sats: the number of
\* cost attributes it assigns before a lookup in costs["satellite"] (third
\* expression) or costs["dc"] (fourth) raises KeyError, 5 if none does.
AssignedUpTo(inp, T, sats) ==
    IF \E s \in Elems(sats), k \in Elems(inp.pixels), t \in 0..(T - 1) :
          KeyMissing(inp, "satellite", <<s, k, t>>)
    THEN 2
    ELSE IF \E k \in Elems(inp.pixels), t \in 0..(T - 1) :
               KeyMissing(inp, "dc", <<k, t>>)
    THEN 3
    ELSE 5

\* The cost attributes after an __add_objective that assigned the first n
\* of the expressions co; the others keep what an earlier build left.
PartialCost(old, co, n) ==
    [assigned   |-> IF old.assigned > n THEN old.assigned ELSE n,
     allocation |-> co.allocation,
     operating  |-> co.operating,
     satellite  |-> IF n >= 3 THEN co.satellite ELSE old.satellite,
     dc         |-> IF n >= 4 THEN co.dc ELSE old.dc,
     total      |-> IF n >= 5 THEN co.total ELSE old.total]

\* The capacity loop over the periods and the satellites sats, rows being
\* the rows it adds, one per (period, satellite): the quicksum of a row
\* looks up vehicles_required["small"] for every pixel before addConstr is
\* called, so the first row with a missing entry raises KeyError and the
\* rows before it are in the model.
CapacityRowsAdded(inp, T, sats, rows) ==
    LET keys  == Concat([it \in DOMAIN Range(T) |->
                     [is \in DOMAIN sats |-> <<Range(T)[it], sats[is]>>]])
        bad   == {i \in DOMAIN keys :
                     \E k \in Elems(inp.pixels) :
                         KeyMissing(inp, "small", <<keys[i][2], k, keys[i][1]>>)}
        first == CHOOSE i \in bad : \A j \in bad : i <= j
    IN [err  |-> bad # {},
        rows |-> IF bad = {} THEN rows ELSE SubSeq(rows, 1, first - 1)]

\* Deterministic.build: reset, variables, objective, constraints, update.
\* A KeyError leaves what the steps before it did: the dictionaries of the
\* new variables, the cost attributes assigned so far, the columns and rows
\* added so far (pending until the next optimize()).
Deterministic_build(inp) ==
    /\ cls = "Deterministic"
    /\ nbuilds < MaxBuilds
    /\ LET b  == nbuilds + 1
           av == Deterministic_add_variables(inp, PERIODS, Len(model.vars), b)
           co == Deterministic_add_objective(inp, PERIODS, av.X, av.Y, av.Z, av.W)
           n  == AssignedUpTo(inp, PERIODS, inp.satellites)
           cp == CapacityRowsAdded(inp, PERIODS, inp.satellites,
                     Deterministic_add_constr_capacity_satellite(
                         inp, PERIODS, av.X, av.Y, av.Z, av.W, b))
           rw == IF cp.err
                 THEN Deterministic_add_constr_allocation_satellite(
                          inp, PERIODS, av.X, av.Y, av.Z, av.W, b)
                   \o Deterministic_add_constr_operating_satellite(
                          inp, PERIODS, av.X, av.Y, av.Z, av.W, b)
                   \o Deterministic_add_constr_assign_pixel_sallite(
                          inp, PERIODS, av.X, av.Y, av.Z, av.W, b)
                   \o cp.rows
                 ELSE Deterministic_add_constraints(
                          inp, PERIODS, av.X, av.Y, av.Z, av.W, b)
       IN /\ X' = av.X /\ Y' = av.Y /\ Z' = av.Z /\ W' = av.W
          /\ cost' = PartialCost(cost, co, n)
          /\ IF n < 5
             THEN /\ model' = [reset(model) EXCEPT !.vars = @ \o av.cols]
                  /\ raised' = "KeyError" /\ live' = live
             ELSE /\ model' = [reset(model) EXCEPT !.vars = @ \o av.cols,
                                                   !.constrs = @ \o rw,
                                                   !.objective = co.total]
                  /\ raised' = IF cp.err THEN "KeyError" ELSE "none"
                  /\ live' = IF cp.err THEN live ELSE inp
    /\ nbuilds' = nbuilds + 1
    /\ lastCall' = "build"
    /\ inputs' = Append(inputs, inp)
    /\ UNCHANGED <<cls, PERIODS, results, metrics, counters, handoff, world,
                   estimate>>

\* SecondStage.build from __add_objective on, the variables being added
\* (dictionaries x, z, w over the columns cols): over the satellites
\* param_y opens, as in Deterministic.build.
SecondStage_build_objective_constraints(inp, x, z, w, cols, b) ==
    LET co == SecondStage_add_objective(inp, PERIODS, x, Y, z, w)
        n  == AssignedUpTo(inp, PERIODS, OpenSatellites(inp, Y))
        cp == CapacityRowsAdded(inp, PERIODS, OpenSatellites(inp, Y),
                  SecondStage_add_constr_capacity_satellite(
                      inp, PERIODS, x, Y, z, w, b))
        rw == IF cp.err
              THEN SecondStage_add_constr_assign_pixel_sallite(
                       inp, PERIODS, x, Y, z, w, b)
                \o SecondStage_add_constr_demand_satified(
                       inp, PERIODS, x, Y, z, w, b)
                \o cp.rows
              ELSE SecondStage_add_constraints(inp, PERIODS, x, Y, z, w, b)
    IN /\ X' = x /\ Z' = z /\ W' = w
       /\ cost' = PartialCost(cost, co, n)
       /\ IF n < 5
          THEN /\ model' = [reset(model) EXCEPT !.vars = @ \o cols]
               /\ raised' = "KeyError" /\ live' = live
          ELSE /\ model' = [reset(model) EXCEPT !.vars = @ \o cols,
                                                !.constrs = @ \o rw,
                                                !.objective = co.total]
               /\ raised' = IF cp.err THEN "KeyError" ELSE "none"
               /\ live' = IF cp.err THEN live ELSE inp

\* SecondStage.build: reset, variables, objective, constraints, update.  A
\* KeyError on param_y itself comes before any dictionary is assigned.
SecondStage_build(inp) ==
    /\ cls = "SecondStage"
    /\ nbuilds < MaxBuilds
    /\ LET av == SecondStage_add_variables(inp, PERIODS, Y, Len(model.vars),
                                            nbuilds + 1)
       IN IF av.err
          THEN /\ model' = [reset(model) EXCEPT !.vars = @ \o av.cols]
               /\ raised' = "KeyError"
               /\ UNCHANGED <<X, Z, W, cost, live>>
          ELSE SecondStage_build_objective_constraints(
                   inp, av.X, av.Z, av.W, av.cols, nbuilds + 1)
    /\ nbuilds' = nbuilds + 1
    /\ lastCall' = "build"
    /\ inputs' = Append(inputs, inp)
    /\ UNCHANGED <<cls, PERIODS, Y, results, metrics, counters, handoff,
                   world, estimate>>

-----------------------------------------------------------------------------
(* optimize_model()                                                        *)

DictColumns(d) == {d[k] : k \in DOMAIN d}

\* The columns the cost expressions of the instance are over.
CostColumns ==
    DOMAIN cost.operating \cup DOMAIN cost.satellite \cup DOMAIN cost.dc
    \cup DOMAIN cost.total
    \cup (IF cls = "Deterministic" THEN DOMAIN cost.allocation ELSE {})

\* The columns the instance can read a value of.
LiveCols ==
    DictColumns(X) \cup DictColumns(Z) \cup DictColumns(W)
    \cup (IF cls = "Deterministic" THEN DictColumns(Y) ELSE {})
    \cup CostColumns

ColsOf(b) == {i \in DOMAIN model.vars : model.vars[i].build = b}
RowsOf(b) == {model.constrs[j] : j \in {j \in DOMAIN model.constrs :
                                           model.constrs[j].build = b}}
Builds == {model.vars[i].build : i \in DOMAIN model.vars}

\* Rows never join the columns of two build() calls, so the model solves
\* build by build; the values of columns no dictionary references are never
\* read and are not kept.
LiveBuilds == {model.vars[i].build : i \in LiveCols}
LiveRows == UNION {RowsOf(b) : b \in LiveBuilds}
DeadFeasible ==
    \A b \in Builds \ LiveBuilds : Feasible(ColsOf(b), RowsOf(b)) # {}

\* Model.optimize(): the status and the incumbent it ends with.  A solved
\* model is not solved again; a run may stop at a time limit set through
\* set_params, with any feasible incumbent or none, or be interrupted.  The
\* caller does not resume a run that stopped with an incumbent.
optimize_model ==
    /\ model.Status = "TIME_LIMIT" => model.SolCount = 0
    /\ lastCall' = "optimize" /\ raised' = "none"
    /\ IF model.Status \in {"OPTIMAL", "INFEASIBLE"}
       THEN model' = model
       ELSE LET F == Feasible(LiveCols, LiveRows) IN
            IF F = {} \/ ~DeadFeasible
            THEN model' = [model EXCEPT !.Status = "INFEASIBLE",
                                        !.SolCount = 0, !.x = EmptyDict]
            ELSE \/ \E a \in Minimisers(F, model.objective) :
                        model' = [model EXCEPT !.Status = "OPTIMAL",
                                               !.SolCount = 1, !.x = a]
                 \/ \E a \in F :
                        model' = [model EXCEPT !.Status = "TIME_LIMIT",
                                               !.SolCount = 1, !.x = a]
                 \/ model' = [model EXCEPT !.Status = "TIME_LIMIT",
                                           !.SolCount = 0, !.x = EmptyDict]
                 \/ model' = [model EXCEPT !.Status = "INTERRUPTED",
                                           !.SolCount = 0, !.x = EmptyDict]
    /\ UNCHANGED <<cls, PERIODS, X, Y, Z, W, cost, results, metrics, counters,
                   nbuilds, live, inputs, handoff,
                   world, estimate>>

-----------------------------------------------------------------------------
(* get_results()                                                           *)

\* Variant of the status test that rejects an infeasible model only.
StatusNotInfeasible(st) == st # "INFEASIBLE"

\* self.model.Status == GRB.OPTIMAL or self.model.Status == GRB.TIME_LIMIT
StatusAccepted(st) == st = "OPTIMAL" \/ st = "TIME_LIMIT"

\* {key: d[key].x for key in d.keys() if d[key].x > 0}
PositiveValues(d, x) ==
    [k \in {k \in DOMAIN d : x[d[k]] > 0} |-> x[d[k]]]

\* {key: self.Y[key] for key in self.Y.keys() if self.Y[key] > 0}
PositiveEntries(y) == [k \in {k \in DOMAIN y : y[k] > 0} |-> y[k]]

\* The slack families in the order get_results fills them, each with the
\* name fragment it selects rows by.
SlackFamilies ==
    IF cls = "Deterministic"
    THEN << <<"allocation_satellite", "R_Open">>,
            <<"operating_satellite", "R_Operating">>,
            <<"assign_pixel_satellite", "R_Assign">>,
            <<"capacity_satellite", "R_capacity">>,
            <<"demand_satified", "R_demand">> >>
    ELSE << <<"assign_pixel_satellite", "R_Assign">>,
            <<"capacity_satellite", "R_capacity">>,
            <<"demand_satified", "R_demand">> >>

\* {key: getConstrByName(key).slack for key in getConstrs() if frag in name}:
\* key is the Constr object, not its name, so the lookup of the first
\* selected row fails; a family that selects no row is the empty dict.
\* The families filled before the failing one, and whether one failed.
ConstraintSlacks(fams, rows) ==
    LET hit   == {i \in DOMAIN fams :
                     \E j \in DOMAIN rows : rows[j].family = fams[i][2]}
        first == CHOOSE i \in hit : \A j \in hit : i <= j
        done  == IF hit = {} THEN DOMAIN fams ELSE 1..(first - 1)
    IN [err  |-> hit # {},
        dict |-> [f \in {fams[i][1] : i \in done} |-> EmptyDict]]

\* The cost metrics in the order get_results writes them.
CostMetrics ==
    <<"cost_allocation_satellite", "cost_operating_satellite",
      "cost_served_from_satellite", "cost_served_from_dc", "cost_total">>

\* What get_results leaves in metrics and results, and what it raises.
GetResultsOutcome ==
    IF ~StatusAccepted(model.Status)
    THEN [metrics |-> metrics, results |-> results, raised |-> "none"]
    ELSE IF model.SolCount = 0
    \* ObjVal: no solution to report
    THEN [metrics |-> metrics, results |-> results, raised |-> "AttributeError"]
    ELSE IF model.vars = <<>>
    \* MIPGap: the model has no integer variable
    THEN [metrics |-> metrics, results |-> results, raised |-> "AttributeError"]
    ELSE IF ~counters
    \* CutN, BranchN, ...: not attributes of this solver's model
    THEN [metrics |-> metrics, results |-> results, raised |-> "AttributeError"]
    ELSE
    LET kpi == [objective     |-> getValue(model.objective, model.x),
                status        |-> model.Status,
                n_variables   |-> Len(model.vars),
                n_constraints |-> Len(model.constrs),
                n_solutions   |-> model.SolCount]
        m1  == ("model" :> kpi) @@ metrics
        cm  == ("cost_allocation_satellite" :>
                     (IF cls = "Deterministic"
                      THEN getValue(cost.allocation, model.x)
                      ELSE cost.allocation))
               @@ ("cost_operating_satellite" :> getValue(cost.operating, model.x))
               @@ ("cost_served_from_satellite" :> getValue(cost.satellite, model.x))
               @@ ("cost_served_from_dc" :> getValue(cost.dc, model.x))
               @@ ("cost_total" :> getValue(cost.total, model.x))
    IN IF cost.assigned < 5
       \* the first cost attribute that was never assigned
       THEN [metrics |-> [key \in {CostMetrics[i] : i \in 1..cost.assigned}
                             |-> cm[key]] @@ m1,
             results |-> results, raised |-> "AttributeError"]
       ELSE
       LET m2 == cm @@ m1
           r2 == ("X" :> PositiveValues(X, model.x))
                 @@ ("Y" :> (IF cls = "Deterministic"
                             THEN PositiveValues(Y, model.x)
                             ELSE PositiveEntries(Y)))
                 @@ ("Z" :> PositiveValues(Z, model.x))
                 @@ ("W" :> PositiveValues(W, model.x))
                 @@ results
           sl == ConstraintSlacks(SlackFamilies, model.constrs)
       IN [metrics |-> ("constraints" :> sl.dict) @@ m2,
           results |-> r2,
           raised  |-> IF sl.err THEN "GurobiError" ELSE "none"]

get_results ==
    /\ LET out == GetResultsOutcome
       IN /\ metrics' = out.metrics
          /\ results' = out.results
          /\ raised' = out.raised
    /\ lastCall' = "get_results"
    /\ UNCHANGED <<cls, PERIODS, X, Y, Z, W, cost, model, counters, nbuilds,
                   live, inputs, handoff,
                   world, estimate>>

-----------------------------------------------------------------------------
(* Stage hand-off                                                          *)

\* The caller constructs SecondStage(periods, param_y = results["Y"]) from
\* the results a Stage-1 get_results has just stored.
HandOff ==
    /\ cls = "Deterministic"
    /\ lastCall = "get_results"
    /\ StatusAccepted(model.Status) /\ model.SolCount > 0
    /\ "Y" \in DOMAIN results
    /\ cls' = "SecondStage"
    /\ Y' = results["Y"]
    /\ X' = EmptyDict /\ Z' = EmptyDict /\ W' = EmptyDict
    /\ cost' = NoCost
    /\ results' = EmptyDict /\ metrics' = EmptyDict
    /\ model' = NewModel
    /\ nbuilds' = 0 /\ lastCall' = "init" /\ raised' = "none"
    /\ live' = NoInput /\ inputs' = <<>>
    /\ handoff' = live
    /\ UNCHANGED <<PERIODS, counters, world, estimate>>

Next ==
    \/ \E inp \in BuildInputs : Deterministic_build(inp)
    \/ \E inp \in BuildInputs : SecondStage_build(inp)
    \/ optimize_model
    \/ get_results
    \/ HandOff

Spec == Init /\ [][Next]_vars

-----------------------------------------------------------------------------
(* Properties of the solutions                                             *)

\* The value the solution gives the column of key in the dictionary d.
Value(d, key) == model.x[d[key]]

\* The (pixel, period) pairs of the build in force.
PixelPeriods == {<<k, t>> : k \in Elems(live.pixels), t \in 0..(PERIODS - 1)}

\* Y[s, q] as the constraints use it: the value of the decision variable in
\* Stage 1, the supplied number in Stage 2.
YValue(s, q) ==
    IF cls = "Deterministic" THEN Value(Y, <<s, q>>) ELSE Y[<<s, q>>]

\* C1 -- Coverage law: in every solution of the model either stage builds,
\* W exists for every pixel and period, Z exists in Stage 2 only for open
\* satellites, and for every pixel k and period t the sum over satellites of
\* Z[s,k,t] plus W[k,t] is exactly 1.
CoverageLaw ==
    model.SolCount > 0 =>
        /\ DOMAIN W = PixelPeriods
        /\ cls = "SecondStage" => \A key \in DOMAIN Z : Open(key[1], Y)
        /\ \A kt \in DOMAIN W :
              LET zs == {key \in DOMAIN Z : key[2] = kt[1] /\ key[3] = kt[2]}
              IN SumOver(zs, [key \in zs |-> Value(Z, key)]) + Value(W, kt) = 1

\* A Stage-2 solution that serves one pixel from a satellite and another
\* from the distribution centre.
CoverageLawWitness ==
    /\ cls = "SecondStage" /\ model.SolCount > 0
    /\ \E k1 \in DOMAIN W, k2 \in DOMAIN W :
          Value(W, k1) = 1 /\ Value(W, k2) = 0

\* C2 -- Capacity: in every solution of the model either stage builds, for
\* every satellite that has Z variables and every period, the fleet the
\* assigned pixels require is at most the capacity of the selected tiers.
CapacityRespected ==
    model.SolCount > 0 =>
        \A s \in {key[1] : key \in DOMAIN Z}, t \in 0..(PERIODS - 1) :
            LET zs == {key \in DOMAIN Z : key[1] = s /\ key[3] = t}
                qs == Elems(Tiers(s))
            IN SumOver(zs, [key \in zs |->
                           Value(Z, key) * fleet_size(live, s, key[2], t)])
               <= SumOver(qs, [q \in qs |->
                           YValue(s, q) * Satellite(s).capacity[q]])

\* A solution that assigns two pixels to one satellite in one period.
CapacityWitness ==
    /\ model.SolCount > 0
    /\ \E k1 \in DOMAIN Z, k2 \in DOMAIN Z :
          /\ k1 # k2 /\ k1[1] = k2[1] /\ k1[3] = k2[3]
          /\ Value(Z, k1) = 1 /\ Value(Z, k2) = 1

\* C3 -- Tier exclusivity: in every solution of the Stage-1 model, every
\* satellite has at most one tier selected.
TierExclusivity ==
    (cls = "Deterministic" /\ model.SolCount > 0) =>
        \A s \in Elems(live.satellites) :
            LET qs == Elems(Tiers(s))
            IN SumOver(qs, [q \in qs |-> Value(Y, <<s, q>>)]) <= 1

\* A Stage-1 solution that selects the second tier of a two-tier satellite.
TierExclusivityWitness ==
    /\ cls = "Deterministic" /\ model.SolCount > 0
    /\ <<"s1", "B">> \in DOMAIN Y
    /\ Value(Y, <<"s1", "B">>) = 1

\* C4 -- Operate-implies-selected: in every solution of the Stage-1 model, X
\* exists for every satellite, tier and period and X[s,q,t] <= Y[s,q].
OperateImpliesSelected ==
    (cls = "Deterministic" /\ model.SolCount > 0) =>
        /\ DOMAIN X = Elems(XKeys(live, PERIODS))
        /\ \A key \in DOMAIN X :
              Value(X, key) <= Value(Y, <<key[1], key[2]>>)

\* A Stage-1 solution with an operating tier, and with a selected tier that
\* does not operate.
OperateImpliesSelectedWitness ==
    /\ cls = "Deterministic" /\ model.SolCount > 0
    /\ \E key \in DOMAIN X : Value(X, key) = 1
    /\ \E key \in DOMAIN X :
          Value(X, key) = 0 /\ Value(Y, <<key[1], key[2]>>) = 1

\* C5 -- Assign-implies-operating: in every solution of the model either
\* stage builds, every Z[s,k,t] that exists is at most the sum of X[s,q,t]
\* over the tiers of s (in Stage 2, X exists for the tiers with positive
\* supplied Y only).
AssignImpliesOperating ==
    model.SolCount > 0 =>
        /\ cls = "SecondStage" =>
              \A key \in DOMAIN X : Y[<<key[1], key[2]>>] > 0
        /\ \A key \in DOMAIN Z :
              LET xs == {xk \in DOMAIN X : xk[1] = key[1] /\ xk[3] = key[3]}
              IN Value(Z, key) <= SumOver(xs, [xk \in xs |-> Value(X, xk)])

\* A Stage-2 solution that assigns a pixel to an open satellite while another
\* satellite of the input is closed.
AssignImpliesOperatingWitness ==
    /\ cls = "SecondStage" /\ model.SolCount > 0
    /\ \E key \in DOMAIN Z : Value(Z, key) = 1
    /\ \E s \in Elems(live.satellites) : ~Open(s, Y)

-----------------------------------------------------------------------------
(* Properties of build() and get_results()                                 *)

\* C6 -- Stage hand-off: when results["Y"] of a Stage-1 get_results is the
\* param_y of a SecondStage, the first build over the same satellites and
\* pixels completes and creates X and Z exactly for the tiers and satellites
\* Stage 1 selected.
HandOffBuildCompletes ==
    (/\ cls = "SecondStage" /\ handoff # NoInput
     /\ lastCall = "build" /\ nbuilds = 1 /\ inputs[1] = handoff)
    => /\ raised = "none"
       /\ {<<key[1], key[2]>> : key \in DOMAIN X} = DOMAIN Y
       /\ {key[1] : key \in DOMAIN Z} = {p[1] : p \in DOMAIN Y}

\* C7 -- Destructive rebuild: after a build() that completed, the solver
\* model holds exactly the columns the dictionaries of that build reference
\* and only rows that build added.
OnlyLastBuildRemains ==
    (lastCall = "build" /\ raised = "none")
    => /\ DOMAIN model.vars = LiveCols
       /\ \A i \in DOMAIN model.vars : model.vars[i].build = nbuilds
       /\ \A j \in DOMAIN model.constrs : model.constrs[j].build = nbuilds

\* What one build() of the inputs in force creates on a new instance of the
\* same class (and the same param_y), and the optimum of that model.
FreshBuild ==
    IF cls = "Deterministic"
    THEN LET av == Deterministic_add_variables(live, PERIODS, 0, 1)
         IN [cols |-> av.cols,
             rows |-> Deterministic_add_constraints(
                          live, PERIODS, av.X, av.Y, av.Z, av.W, 1),
             objective |-> Deterministic_add_objective(
                          live, PERIODS, av.X, av.Y, av.Z, av.W).total]
    ELSE LET av == SecondStage_add_variables(live, PERIODS, Y, 0, 1)
         IN [cols |-> av.cols,
             rows |-> SecondStage_add_constraints(
                          live, PERIODS, av.X, Y, av.Z, av.W, 1),
             objective |-> SecondStage_add_objective(
                          live, PERIODS, av.X, Y, av.Z, av.W).total]

FreshOptimum ==
    LET F == Feasible(DOMAIN FreshBuild.cols, Elems(FreshBuild.rows))
        a == CHOOSE a \in Minimisers(F, FreshBuild.objective) : TRUE
    IN getValue(FreshBuild.objective, a)

\* Two build() calls in a row with the same inputs, both completed, the
\* model then solved to optimality.
BuiltTwiceAndSolved ==
    /\ nbuilds = 2 /\ inputs[1] = inputs[2] /\ live = inputs[2]
    /\ model.Status = "OPTIMAL"

\* C8 -- Rebuild determinism: building twice with unchanged inputs and then
\* optimizing gives the variable count, the constraint count and the optimal
\* objective value of building once and optimizing.
RebuildDeterminism ==
    BuiltTwiceAndSolved
    => /\ Len(model.vars) = Len(FreshBuild.cols)
       /\ Len(model.constrs) = Len(FreshBuild.rows)
       /\ getValue(model.objective, model.x) = FreshOptimum

\* C9 -- get_results on a status other than optimal or time-limit changes
\* neither self.results nor self.metrics and raises nothing.
GetResultsNoOp ==
    [][(lastCall' = "get_results"
        /\ model.Status \notin {"OPTIMAL", "TIME_LIMIT"})
       => (results' = results /\ metrics' = metrics /\ raised' = "none")]_vars

\* get_results has returned on an interrupted run of a fresh instance, on
\* which results and metrics are still empty.
GetResultsNoOpWitness ==
    /\ lastCall = "get_results" /\ raised = "none"
    /\ model.Status = "INTERRUPTED"
    /\ results = EmptyDict /\ metrics = EmptyDict

\* C10 -- get_results on status optimal or time-limit (with any number of
\* solutions) completes and populates metrics["model"], the four cost
\* components and cost_total, results X, Y, Z, W and the slacks of every
\* constraint family.
GetResultsPopulates ==
    (lastCall = "get_results" /\ model.Status \in {"OPTIMAL", "TIME_LIMIT"})
    => /\ raised = "none"
       /\ {"model", "constraints", "cost_allocation_satellite",
           "cost_operating_satellite", "cost_served_from_satellite",
           "cost_served_from_dc", "cost_total"} \subseteq DOMAIN metrics
       /\ DOMAIN results = {"X", "Y", "Z", "W"}
       /\ DOMAIN metrics["constraints"]
            = {SlackFamilies[i][1] : i \in DOMAIN SlackFamilies}

-----------------------------------------------------------------------------
(* Properties of the extracted results and of the Stage-2 build            *)

\* get_results has been called on status optimal or time-limit with an
\* incumbent.
ResultsExtracted ==
    /\ lastCall = "get_results"
    /\ model.Status \in {"OPTIMAL", "TIME_LIMIT"}
    /\ model.SolCount > 0

\* C11 -- Sparse results: after get_results on an accepted status, results
\* holds, for each of X, Y, Z, W, exactly the keys whose value is strictly
\* positive, each with that value (in Stage 2, results["Y"] holds the
\* positive entries of param_y).
SparseResults ==
    ResultsExtracted =>
        /\ DOMAIN results = {"X", "Y", "Z", "W"}
        /\ DOMAIN results["X"] = {k \in DOMAIN X : Value(X, k) > 0}
        /\ \A k \in DOMAIN results["X"] : results["X"][k] = Value(X, k)
        /\ DOMAIN results["Z"] = {k \in DOMAIN Z : Value(Z, k) > 0}
        /\ \A k \in DOMAIN results["Z"] : results["Z"][k] = Value(Z, k)
        /\ DOMAIN results["W"] = {k \in DOMAIN W : Value(W, k) > 0}
        /\ \A k \in DOMAIN results["W"] : results["W"][k] = Value(W, k)
        /\ DOMAIN results["Y"] = {k \in DOMAIN Y : YValue(k[1], k[2]) > 0}
        /\ \A k \in DOMAIN results["Y"] : results["Y"][k] = YValue(k[1], k[2])

\* The satellites of the build in force that param_y closes.
ClosedSatellites ==
    {s \in Elems(live.satellites) :
        \A q \in Elems(Tiers(s)) : Y[<<s, q>>] = 0}

\* The names of the rows of one family that the last build() added.
RowNames(family) ==
    {model.constrs[j].name :
        j \in {j \in DOMAIN model.constrs :
                  /\ model.constrs[j].build = nbuilds
                  /\ model.constrs[j].family = family}}

\* C19 -- Stage-2 sparsity: a completed SecondStage.build creates X exactly
\* for the pairs with Y[s,q] > 0 and every period, Z exactly for the
\* satellites that are not closed, W for every pixel and period, no other
\* column, and assign and capacity rows for the satellites that are not
\* closed only.
Stage2Sparsity ==
    (cls = "SecondStage" /\ lastCall = "build" /\ raised = "none") =>
        LET open == Elems(live.satellites) \ ClosedSatellites
            T    == 0..(PERIODS - 1)
        IN /\ DOMAIN X = {key \in Elems(XKeys(live, PERIODS)) :
                             Y[<<key[1], key[2]>>] > 0}
           /\ DOMAIN Z = {key \in Elems(ZKeys(live, PERIODS)) : key[1] \in open}
           /\ DOMAIN W = PixelPeriods
           /\ Cardinality(ColsOf(nbuilds))
                = Cardinality(DOMAIN X) + Cardinality(DOMAIN Z)
                  + Cardinality(DOMAIN W)
           /\ RowNames("R_Assign")
                = {"R_Assign_s" \o key[1] \o "_k" \o key[2] \o "_t"
                      \o ToString(key[3]) : key \in DOMAIN Z}
           /\ RowNames("R_capacity")
                = {"R_capacity_s" \o s \o "_t" \o ToString(t) :
                      s \in open, t \in T}

\* A completed Stage-2 build over one closed and one open satellite.
Stage2SparsityWitness ==
    /\ cls = "SecondStage" /\ lastCall = "build" /\ raised = "none"
    /\ ClosedSatellites # {}
    /\ ClosedSatellites # Elems(live.satellites)

\* The four cost components get_results reports.
CostComponents ==
    {"cost_allocation_satellite", "cost_operating_satellite",
     "cost_served_from_satellite", "cost_served_from_dc"}

\* C20 -- Stage-1 objective and cost report: the objective of the Stage-1
\* model is the sum of cost_fixed * Y, cost_operation * X, the satellite
\* service cost * Z and the DC service cost * W and nothing else; after
\* get_results on an accepted status metrics["cost_total"] is the sum of the
\* four reported components and equals metrics["model"]["objective"].
ObjectiveAndCostReport ==
    cls = "Deterministic" =>
        /\ (lastCall = "build") =>
              /\ DOMAIN model.objective = LiveCols
              /\ \A key \in DOMAIN Y : model.objective[Y[key]]
                    = Satellite(key[1]).cost_fixed[key[2]]
              /\ \A key \in DOMAIN X : model.objective[X[key]]
                    = Satellite(key[1]).cost_operation[key[2]][key[3]]
              /\ \A key \in DOMAIN Z : model.objective[Z[key]]
                    = cost_satellite(live, key[1], key[2], key[3])
              /\ \A key \in DOMAIN W : model.objective[W[key]]
                    = cost_dc(live, key[1], key[2])
        /\ ResultsExtracted =>
              /\ CostComponents \cup {"cost_total", "model"}
                    \subseteq DOMAIN metrics
              /\ metrics["cost_total"]
                    = SumOver(CostComponents,
                              [c \in CostComponents |-> metrics[c]])
              /\ metrics["cost_total"] = metrics["model"].objective

-----------------------------------------------------------------------------
(* Stage-1 scenarios                                                       *)

\* The fleet sizes of the two pixels, and the (satellite total, DC total)
\* service costs of one pixel, the scenarios draw from.
ScenarioLoads == {<<4, 4>>, <<7, 8>>, <<12, 3>>}
ScenarioCosts == {<<5, 6>>, <<5, 200>>, <<90, 200>>, <<5, 3>>}

\* build() arguments with one two-tier satellite and two pixels, and the
\* inputs above.
ScenarioInputs ==
    BuildInputs \cup
    { [satellites |-> <<s>>, pixels |-> <<"k1", "k2">>,
       load |-> [k1 |-> l[1], k2 |-> l[2]],
       sat  |-> (s :> [k1 |-> c1[1], k2 |-> c2[1]]),
       dc   |-> [k1 |-> c1[2], k2 |-> c2[2]],
       missing |-> NoneMissing] :
      s \in {"s1", "s3"}, l \in ScenarioLoads,
      c1 \in ScenarioCosts, c2 \in ScenarioCosts }

\* A Stage-1 instance that is built once, optimized and read.
ScenarioInit == Init /\ cls = "Deterministic"

ScenarioNext ==
    \/ \E inp \in ScenarioInputs : nbuilds = 0 /\ Deterministic_build(inp)
    \/ optimize_model
    \/ get_results

SpecScenario == ScenarioInit /\ [][ScenarioNext]_vars

\* Fixed plus operating cost of running tier q of satellite s in the one
\* period, and what serving pixel k from satellite s saves over the DC.
FixedAndOperating(s, q) ==
    Satellite(s).cost_fixed[q] + Satellite(s).cost_operation[q][0]

Saving(s, k) == cost_dc(live, k, 0) - cost_satellite(live, s, k, 0)

\* An optimum of the Stage-1 model of one satellite with tiers A (capacity
\* 10, fixed 100) and B (capacity 20, fixed 150), two pixels, one period, the
\* given combined fleet load, satellite service cheaper than DC service for
\* both pixels.
TwoTierOptimum(total) ==
    /\ cls = "Deterministic" /\ PERIODS = 1
    /\ model.Status = "OPTIMAL"
    /\ live.satellites \in {<<"s1">>, <<"s3">>}
    /\ live.pixels = <<"k1", "k2">>
    /\ fleet_size(live, live.satellites[1], "k1", 0)
         + fleet_size(live, live.satellites[1], "k2", 0) = total
    /\ \A k \in {"k1", "k2"} : Saving(live.satellites[1], k) > 0

TierASelectedServesBoth ==
    LET s == live.satellites[1]
    IN /\ Value(Y, <<s, "A">>) = 1 /\ Value(Y, <<s, "B">>) = 0
       /\ Value(Z, <<s, "k1", 0>>) = 1 /\ Value(Z, <<s, "k2", 0>>) = 1
       /\ Value(W, <<"k1", 0>>) = 0 /\ Value(W, <<"k2", 0>>) = 0

TierBSelected ==
    LET s == live.satellites[1]
    IN Value(Y, <<s, "A">>) = 0 /\ Value(Y, <<s, "B">>) = 1

\* C12 as stated -- with combined load 8 and satellite service cheaper than
\* DC service, every Stage-1 optimum selects tier A only and serves both
\* pixels from the satellite, whatever the remaining cost data.
CheaperTierForAnyCosts == TwoTierOptimum(8) => TierASelectedServesBoth

\* The total saving over DC service exceeds the fixed plus operating cost of
\* tier A, which is below that of tier B.
TierAPaysOff ==
    LET s == live.satellites[1]
    IN /\ FixedAndOperating(s, "A") < FixedAndOperating(s, "B")
       /\ Saving(s, "k1") + Saving(s, "k2") > FixedAndOperating(s, "A")

\* C12 -- Scenario (cheaper sufficient tier): with combined load 8 and
\* satellite service cheaper than DC service, every Stage-1 optimum selects
\* tier A only, serves both pixels from the satellite and none from the DC,
\* provided the total saving exceeds tier A's fixed plus operating cost and
\* that cost is below tier B's.
CheaperSufficientTier ==
    (TwoTierOptimum(8) /\ TierAPaysOff) => TierASelectedServesBoth

CheaperSufficientTierWitness ==
    TwoTierOptimum(8) /\ TierAPaysOff /\ TierASelectedServesBoth

\* C13 as stated -- with combined load 15 every Stage-1 optimum selects
\* tier B only.
LargerTierForAnyCosts == TwoTierOptimum(15) => TierBSelected

\* Every pixel's saving exceeds what tier B costs more than tier A, and the
\* total saving exceeds the fixed plus operating cost of tier B.
TierBPaysOff ==
    LET s == live.satellites[1]
    IN /\ \A k \in {"k1", "k2"} :
             Saving(s, k) > FixedAndOperating(s, "B") - FixedAndOperating(s, "A")
       /\ Saving(s, "k1") + Saving(s, "k2") > FixedAndOperating(s, "B")

\* C13 -- Scenario (load exceeds tier A): with combined load 15 every
\* Stage-1 optimum selects tier B only, provided every pixel's saving
\* exceeds the extra fixed plus operating cost of tier B over tier A and the
\* total saving exceeds tier B's fixed plus operating cost.
LargerTierNeeded == (TwoTierOptimum(15) /\ TierBPaysOff) => TierBSelected

LargerTierNeededWitness ==
    TwoTierOptimum(15) /\ TierBPaysOff /\ TierBSelected

\* DC service of the pixel and period is strictly cheaper than service from
\* every satellite of the build.
DcCheaper(kt) ==
    \A s \in Elems(live.satellites) :
        cost_dc(live, kt[1], kt[2]) < cost_satellite(live, s, kt[1], kt[2])

\* C14 -- Scenario (DC cheaper): in every Stage-1 optimum, a pixel and
\* period whose DC service cost is strictly below the service cost from
\* every satellite has W = 1 and no positive Z.
DcCheaperServedFromDc ==
    (cls = "Deterministic" /\ model.Status = "OPTIMAL") =>
        \A kt \in DOMAIN W :
            DcCheaper(kt) =>
                /\ Value(W, kt) = 1
                /\ \A key \in DOMAIN Z :
                      (key[2] = kt[1] /\ key[3] = kt[2]) => Value(Z, key) = 0

\* An optimum that serves one pixel from the DC, where it is cheaper, and
\* the other from the satellite.
DcCheaperServedFromDcWitness ==
    /\ cls = "Deterministic" /\ model.Status = "OPTIMAL"
    /\ \E kt \in DOMAIN W : DcCheaper(kt) /\ Value(W, kt) = 1
    /\ \E kt \in DOMAIN W : Value(W, kt) = 0

-----------------------------------------------------------------------------
(* The estimator at work                                                   *)

instanceVars ==
    <<cls, PERIODS, X, Y, Z, W, cost, results, metrics, model, counters,
      nbuilds, lastCall, raised, live, inputs, handoff>>

\* CADeterministic(satellites, periods, small_vehicle, large_vehicle) and
\* the pixels and distances it is called with.
EstimatorInit ==
    /\ InstanceInit /\ cls = "Deterministic" /\ counters
    /\ world \in Worlds /\ estimate = NoEstimate

\* The vehicle of a type, and the line-haul distances used with it.
VehicleOf(type) ==
    IF type = "small" THEN world.small_vehicle ELSE world.large_vehicle

DistancesOf(type, k) ==
    IF type = "small"
    THEN {world.distances_sat[<<s, k>>] : s \in DOMAIN world.satellites}
    ELSE {world.distances_dc[k]}

\* One call self.__avg_fleet_size(pixel, vehicle, t, distance).
call_avg_fleet_size(k, type, t) ==
    /\ \E d \in DistancesOf(type, k) :
          estimate' = [op |-> "avg_fleet_size", pixel |-> k, type |-> type,
                       t |-> t, distance |-> d,
                       out |-> Imported(world.annotations,
                                   avg_fleet_size(world.pixels[k],
                                                  VehicleOf(type), t, d))]
    /\ UNCHANGED <<instanceVars, world>>

call_from_satellites ==
    /\ estimate' = [op |-> "from_satellites",
                    out |-> Imported(world.annotations,
                              calculate_avg_fleet_size_from_satellites(world))]
    /\ UNCHANGED <<instanceVars, world>>

call_from_dc ==
    /\ estimate' = [op |-> "from_dc",
                    out |-> Imported(world.annotations,
                              calculate_avg_fleet_size_from_dc(world))]
    /\ UNCHANGED <<instanceVars, world>>

EstimatorNext ==
    \/ \E k \in DOMAIN world.pixels, type \in {"small", "large"},
          t \in 0..(world.periods - 1) : call_avg_fleet_size(k, type, t)
    \/ call_from_satellites
    \/ call_from_dc

SpecEstimator == EstimatorInit /\ [][EstimatorNext]_vars

\* The arguments of the single call made last.
CalledPixel == world.pixels[estimate.pixel]
CalledVehicle == VehicleOf(estimate.type)
CalledDrop == At(CalledPixel.avg_drop, estimate.t)
CalledStop == At(CalledPixel.avg_stop, estimate.t)
CalledDemand == At(CalledPixel.demand_by_period, estimate.t)

\* The last call was a single estimate with a zero statistic, or with all
\* three statistics positive.
DegenerateCall ==
    /\ estimate.op = "avg_fleet_size"
    /\ (CalledDrop = R(0) \/ CalledStop = R(0) \/ CalledDemand = R(0))

RegularCall ==
    /\ estimate.op = "avg_fleet_size"
    /\ RatLess(R(0), CalledDrop) /\ RatLess(R(0), CalledStop)
    /\ RatLess(R(0), CalledDemand)

\* C15 -- Estimator degenerate guard: when avg_drop, avg_stop or the demand
\* of the period is 0, every field of the estimate is 0 except demand_served,
\* which is the demand of the period.
DegenerateAllZero ==
    DegenerateCall =>
        /\ estimate.out.raised = "none"
        /\ estimate.out.value.demand_served = CalledDemand
        /\ \A f \in DOMAIN estimate.out.value \ {"demand_served"} :
              estimate.out.value[f] = R(0)

\* beta and fleet size as the formula gives them for the last call, M being
\* the duty-cycle cap the Vehicle was constructed with.
FormulaBeta ==
    RatDiv(CalledVehicle.max_time_services,
           avg_time(CalledPixel, CalledVehicle, estimate.t, estimate.distance))

FormulaFleetSize(stop) ==
    LET den == RatMul(FormulaBeta, RatDiv(CalledVehicle.capacity, CalledDrop))
    IN IF RatLess(R(0), den) THEN RatDiv(stop, den) ELSE R(0)

\* C16 -- Estimator formula: on positive statistics the estimate has
\* effective_capacity = capacity / avg_drop, fully_loaded_tours = M /
\* (avg_tour_time + time_preparing_dispatch + time_line_haul) and fleet_size
\* = avg_stop / (beta * effective_capacity) when that denominator is > 0,
\* else 0.
EstimatorFormula ==
    RegularCall =>
        /\ estimate.out.raised = "none"
        /\ estimate.out.value.effective_capacity
             = RatDiv(CalledVehicle.capacity, CalledDrop)
        /\ estimate.out.value.fully_loaded_tours = FormulaBeta
        /\ estimate.out.value.fleet_size = FormulaFleetSize(CalledStop)

\* C17 -- Estimator monotonicity: of two calls on positive statistics that
\* differ only in avg_stop, with beta > 0, the one with the larger avg_stop
\* returns the strictly larger fleet_size.
EstimatorMonotone ==
    RegularCall =>
        \A st \in PixelStats :
            RatLess(CalledStop, R(st[2])) =>
                LET more  == [CalledPixel EXCEPT
                                 !.avg_stop = [t \in DOMAIN @ |-> R(st[2])]]
                    other == avg_fleet_size(more, CalledVehicle, estimate.t,
                                            estimate.distance)
                IN /\ estimate.out.raised = "none" /\ other.raised = "none"
                   /\ RatLess(R(0), estimate.out.value.fully_loaded_tours)
                        => RatLess(estimate.out.value.fleet_size,
                                   other.value.fleet_size)

\* C18 -- Estimator batch maps: calculate_avg_fleet_size_from_satellites
\* returns the small-vehicle estimate for every (satellite id, pixel id,
\* period) with the line-haul distance of the pair, and
\* calculate_avg_fleet_size_from_dc the large-vehicle estimate for every
\* (pixel id, period) with the DC distance of the pixel.
BatchMaps ==
    /\ estimate.op = "from_satellites" =>
          /\ estimate.out.raised = "none"
          /\ DOMAIN estimate.out.value
               = (DOMAIN world.satellites) \X (DOMAIN world.pixels)
                 \X (0..(world.periods - 1))
          /\ \A key \in DOMAIN estimate.out.value :
                LET e == avg_fleet_size(world.pixels[key[2]],
                             world.small_vehicle, key[3],
                             world.distances_sat[<<key[1], key[2]>>])
                IN e.raised = "none" /\ estimate.out.value[key] = e.value
    /\ estimate.op = "from_dc" =>
          /\ estimate.out.raised = "none"
          /\ DOMAIN estimate.out.value
               = (DOMAIN world.pixels) \X (0..(world.periods - 1))
          /\ \A key \in DOMAIN estimate.out.value :
                LET e == avg_fleet_size(world.pixels[key[1]],
                             world.large_vehicle, key[2],
                             world.distances_dc[key[1]])
                IN e.raised = "none" /\ estimate.out.value[key] = e.value

-----------------------------------------------------------------------------
(* The Stage-2 cost report                                                 *)

\* The (satellite, tier) pairs of the build in force.
LivePairs ==
    UNION {{<<s, q>> : q \in Elems(Tiers(s))} : s \in Elems(live.satellites)}

\* sum of cost_fixed[s][q] * Y[s, q] over the supplied Y
SuppliedAllocation ==
    SumOver(LivePairs \cap DOMAIN Y,
            [p \in LivePairs \cap DOMAIN Y |->
                Satellite(p[1]).cost_fixed[p[2]] * Y[p]])

CostKeys ==
    {"cost_allocation_satellite", "cost_operating_satellite",
     "cost_served_from_satellite", "cost_served_from_dc", "cost_total"}

\* C21 -- Stage-2 cost report: after SecondStage.get_results on an accepted
\* status, metrics['cost_allocation_satellite'] is the sum of cost_fixed * Y
\* over the supplied Y and metrics['cost_total'] is the sum of the four
\* reported components.
Stage2CostReport ==
    (cls = "SecondStage" /\ lastCall = "get_results"
        /\ StatusAccepted(model.Status)) =>
        /\ CostKeys \subseteq DOMAIN metrics
        /\ metrics["cost_allocation_satellite"] = SuppliedAllocation
        /\ metrics["cost_total"]
             = metrics["cost_allocation_satellite"]
               + metrics["cost_operating_satellite"]
               + metrics["cost_served_from_satellite"]
               + metrics["cost_served_from_dc"]

-----------------------------------------------------------------------------
(* Variable names                                                          *)

\* C29 -- Unique variable names: within one build of either stage, distinct
\* decision variables have distinct solver names, also for satellites with
\* more than one tier.
UniqueVariableNames ==
    \A b \in Builds : \A i, j \in ColsOf(b) :
        i # j => model.vars[i].name # model.vars[j].name

-----------------------------------------------------------------------------
(* Stage 2 and the supplied Y                                              *)

\* The capacity Stage 2 gives satellite s: the right-hand side of its
\* R_capacity rows.
Stage2Capacity(s) ==
    {model.constrs[j].rhs :
        j \in {j \in DOMAIN model.constrs :
                  /\ model.constrs[j].family = "R_capacity"
                  /\ model.constrs[j].build \in LiveBuilds
                  /\ \E t \in 0..(PERIODS - 1) :
                        model.constrs[j].name
                          = "R_capacity_s" \o s \o "_t" \o ToString(t)}}

\* C25 -- Stage-2 tier exclusivity: in every result Stage 2 extracts, every
\* satellite has at most one tier with Y = 1 and the capacity of a single
\* tier, whatever param_y the caller supplied.
Stage2TierExclusivity ==
    (cls = "SecondStage" /\ "Y" \in DOMAIN results) =>
        \A s \in Elems(live.satellites) :
            LET qs == {q \in Elems(Tiers(s)) : <<s, q>> \in DOMAIN results["Y"]}
            IN /\ SumOver(qs, [q \in qs |-> results["Y"][<<s, q>>]]) <= 1
               /\ Stage2Capacity(s)
                    \subseteq {Satellite(s).capacity[q] : q \in Elems(Tiers(s))}

-----------------------------------------------------------------------------
(* Feasibility                                                             *)

\* The all-DC assignment of the build in force: every W is 1, every other
\* variable the instance references is 0.
AllDC == [v \in LiveCols |-> IF v \in DictColumns(W) THEN 1 ELSE 0]

\* The sum of all DC service costs of the build in force.
DcTotal ==
    SumOver(PixelPeriods,
            [kt \in PixelPeriods |-> cost_dc(live, kt[1], kt[2])])

\* C28 -- Always feasible: the all-DC assignment satisfies every row of the
\* model either stage has built from complete inputs, optimize() never ends
\* with status infeasible, and the optimal objective is at most the sum of
\* all DC service costs.
AlwaysFeasible ==
    /\ model.Status # "INFEASIBLE"
    /\ live # NoInput =>
          /\ \A c \in LiveRows : MaySatisfy(c, AllDC)
          /\ DeadFeasible
          /\ model.Status = "OPTIMAL" =>
                getValue(model.objective, model.x) <= DcTotal

\* An optimum, reached after a rebuild, of a model with satellites to assign
\* to whose solution is the all-DC assignment.
AlwaysFeasibleWitness ==
    /\ live # NoInput /\ model.Status = "OPTIMAL"
    /\ nbuilds = 2 /\ DOMAIN Z # {}
    /\ model.x = AllDC
    /\ getValue(model.objective, model.x) = DcTotal

-----------------------------------------------------------------------------
(* The two stages together                                                 *)

\* The model a Deterministic instance builds from inp, its optima, and the
\* complete Y mapping (every (satellite, tier) of inp, value 0 or 1) of an
\* optimum.
Stage1Build(inp) ==
    LET av == Deterministic_add_variables(inp, PERIODS, 0, 1)
    IN [Y |-> av.Y,
        cols |-> av.cols,
        rows |-> Deterministic_add_constraints(
                     inp, PERIODS, av.X, av.Y, av.Z, av.W, 1),
        objective |-> Deterministic_add_objective(
                     inp, PERIODS, av.X, av.Y, av.Z, av.W).total]

Stage1Optima(inp) ==
    Minimisers(Feasible(DOMAIN Stage1Build(inp).cols,
                        Elems(Stage1Build(inp).rows)),
               Stage1Build(inp).objective)

CompleteY(inp, a) ==
    [p \in DOMAIN Stage1Build(inp).Y |-> a[Stage1Build(inp).Y[p]]]

\* A Stage-2 optimum of the inputs in force whose supplied Y agrees, on the
\* pairs of these inputs, with the complete Y of the Stage-1 optimum a.
Stage2OfOptimum(a) ==
    /\ cls = "SecondStage" /\ live # NoInput
    /\ model.Status = "OPTIMAL"
    /\ DOMAIN CompleteY(live, a) \subseteq DOMAIN Y
    /\ \A p \in DOMAIN CompleteY(live, a) : Y[p] = CompleteY(live, a)[p]

\* C27 -- Two-stage consistency: when Stage 2 is built with the complete Y
\* mapping of a Stage-1 optimum and the same inputs, its optimal objective
\* plus the precomputed allocation cost is the Stage-1 optimal objective.
TwoStageConsistency ==
    (cls = "SecondStage" /\ live # NoInput /\ model.Status = "OPTIMAL") =>
        \A a \in Stage1Optima(live) :
            Stage2OfOptimum(a) =>
                getValue(model.objective, model.x) + cost.allocation
                  = getValue(Stage1Build(live).objective, a)

\* Stage 2 solved on the Y of a Stage-1 optimum that selects a tier.
TwoStageConsistencyWitness ==
    /\ cls = "SecondStage" /\ live # NoInput /\ model.Status = "OPTIMAL"
    /\ \E a \in Stage1Optima(live) :
          /\ Stage2OfOptimum(a)
          /\ \E p \in DOMAIN CompleteY(live, a) : CompleteY(live, a)[p] = 1

-----------------------------------------------------------------------------
(* Divisions of the estimator                                              *)

\* C26 -- No division by zero in the estimator: for every pixel, vehicle,
\* period and distance __avg_fleet_size returns an estimate and raises
\* nothing, also when area_km, a speed or the total cycle time is 0.
NoDivisionByZero ==
    estimate.op = "avg_fleet_size" => estimate.out.raised = "none"

-----------------------------------------------------------------------------
(* Life cycle of results and metrics                                       *)

\* C23 -- build() resets prior state: after a build() the instance holds no
\* results and no metrics of an earlier solve, and a get_results that follows
\* on a status other than optimal or time-limit leaves both empty.
BuildResetsState ==
    /\ lastCall = "build" => (results = EmptyDict /\ metrics = EmptyDict)
    /\ (lastCall = "get_results"
           /\ model.Status \notin {"OPTIMAL", "TIME_LIMIT"})
        => (results = EmptyDict /\ metrics = EmptyDict)

\* C24 -- Lifecycle ordering: results and metrics get an entry only from a
\* get_results call made when the last optimize() since construction and
\* since the last build() ended with status optimal or time-limit; in the
\* Created state and in the Built state the status is neither, and a
\* get_results called there populates nothing.
LifecycleOrdering ==
    /\ [](lastCall \in {"init", "build"}
            => model.Status \notin {"OPTIMAL", "TIME_LIMIT"})
    /\ [][(\/ \E key \in DOMAIN results' :
                 key \notin DOMAIN results \/ results'[key] # results[key]
           \/ \E key \in DOMAIN metrics' :
                 key \notin DOMAIN metrics \/ metrics'[key] # metrics[key])
          => /\ lastCall' = "get_results"
             /\ lastCall \in {"optimize", "get_results"}
             /\ model.Status \in {"OPTIMAL", "TIME_LIMIT"}]_vars

\* get_results has populated results and metrics after the second build()
\* of the instance was optimized.
LifecycleOrderingWitness ==
    /\ lastCall = "get_results" /\ nbuilds = 2
    /\ model.Status \in {"OPTIMAL", "TIME_LIMIT"}
    /\ DOMAIN results = {"X", "Y", "Z", "W"}
    /\ "cost_total" \in DOMAIN metrics

-----------------------------------------------------------------------------
(* Builds on inputs with missing entries                                   *)

\* Build inputs whose cost and fleet tables lack entries, one table at a
\* time, and the complete input.
MissingInputs ==
    LET one == [satellites |-> <<"s2">>, pixels |-> <<"k1">>,
                load |-> [k1 |-> 4],
                sat  |-> [s2 |-> [k1 |-> 6]],
                dc   |-> [k1 |-> 200],
                missing |-> NoneMissing]
    IN { one,
         [one EXCEPT !.missing.satellite = {<<"s2", "k1", 0>>}],
         [one EXCEPT !.missing.dc = {<<"k1", 0>>}],
         [one EXCEPT !.missing.small = {<<"s2", "k1", 0>>}] }

MissingNext ==
    \/ \E inp \in MissingInputs : Deterministic_build(inp)
    \/ \E inp \in MissingInputs : SecondStage_build(inp)
    \/ optimize_model
    \/ get_results

SpecMissing == Init /\ [][MissingNext]_vars

\* The arguments of the last build() call.
LastInput == inputs[Len(inputs)]

\* The satellites whose index tuples a build on inp needs: all of them in
\* Stage 1, those with a positive param_y entry in Stage 2.
RequiredSatellites(inp) ==
    IF cls = "Deterministic" THEN Elems(inp.satellites)
    ELSE {s \in Elems(inp.satellites) :
             \E q \in Elems(Tiers(s)) : Y[<<s, q>>] > 0}

\* The required index tuples the tables of inp have no entry for.
RequiredMissing(inp) ==
    {<<"satellite", key>> : key \in
        {key \in inp.missing.satellite : key[1] \in RequiredSatellites(inp)
                                         /\ key[2] \in Elems(inp.pixels)
                                         /\ key[3] \in 0..(PERIODS - 1)}}
    \cup {<<"small", key>> : key \in
        {key \in inp.missing.small : key[1] \in RequiredSatellites(inp)
                                     /\ key[2] \in Elems(inp.pixels)
                                     /\ key[3] \in 0..(PERIODS - 1)}}
    \cup {<<"dc", key>> : key \in
        {key \in inp.missing.dc : key[1] \in Elems(inp.pixels)
                                  /\ key[2] \in 0..(PERIODS - 1)}}

\* C22 -- Missing-input fail-fast: a build() whose costs["satellite"],
\* costs["dc"] or vehicles_required["small"] lacks a required index tuple
\* ends in KeyError, raised while the objective or the constraints are being
\* constructed: the model has no row of a later constraint family than the
\* capacity one and the build is not in force.  In Stage 2 the required
\* tuples are those of the open satellites only: a build that lacks tuples
\* of closed satellites alone completes.
MissingInputFailsFast ==
    (lastCall = "build" /\ inputs # <<>>) =>
        /\ RequiredMissing(LastInput) # {} =>
              /\ raised = "KeyError"
              /\ \A j \in DOMAIN model.constrs :
                    model.constrs[j].build = nbuilds =>
                        model.constrs[j].family # "R_demand"
                        \/ cls = "SecondStage"
              /\ (\E e \in RequiredMissing(LastInput) : e[1] # "small")
                    => \A j \in DOMAIN model.constrs :
                          model.constrs[j].build # nbuilds
        /\ RequiredMissing(LastInput) = {} =>
              /\ raised = "none"
              /\ live = LastInput

\* A Stage-2 build after a completed one has failed on a missing fleet
\* entry of an open satellite, after the objective was set; the earlier
\* build stays in force.
MissingInputFailsFastWitness ==
    /\ cls = "SecondStage" /\ lastCall = "build" /\ nbuilds = 2
    /\ raised = "KeyError"
    /\ RequiredMissing(LastInput) = {<<"small", <<"s2", "k1", 0>>>>}
    /\ cost.assigned = 5
    /\ RequiredMissing(inputs[1]) = {}
    /\ live = inputs[1]

====
